---------------------------- MODULE Spec2Model ----------------------------
(***************************************************************************)
(* GtkRange (src/gtk/gtkrange.c): the pointer / keyboard interaction state *)
(* machine, the change-value funnel, the repeat timer, the autoscroll      *)
(* driver and the slider geometry.                                         *)
(*                                                                         *)
(* Every C function is an operator from the widget's state to its state;   *)
(* the state is the record r = [priv, adj, w, ev, h]:                      *)
(*   priv  the fields of struct _GtkRangePrivate,                          *)
(*   adj   the GtkAdjustment the range points to,                          *)
(*   w     what the toolkit holds for the range (slider allocation, the    *)
(*         drag gesture, text direction, settings),                        *)
(*   ev    what the last dispatched callback emitted,                      *)
(*   h     the history of the current repeat timer / tick callback.        *)
(* gdouble values are exact rationals <<n, d>> (d > 0, lowest terms);      *)
(* gint values are integers, and a gdouble stored to a gint truncates.     *)
(***************************************************************************)
EXTENDS Integers, Sequences, FiniteSets, TLC

VARIABLES priv, adjustment, widget, ev, hist

vars == <<priv, adjustment, widget, ev, hist>>

-----------------------------------------------------------------------------
(* gdouble arithmetic *)

RECURSIVE Gcd(_, _)
Gcd(a, b) == IF b = 0 THEN a ELSE Gcd(b, a % b)

IAbs(i) == IF i < 0 THEN -i ELSE i

\* the rational n/d in lowest terms; a zero d gives what a division by zero
\* gives, an infinity <<1, 0>> or <<-1, 0>>, or not-a-number <<0, 0>>, which
\* the operations hand on
Q(n, d) ==
  IF d = 0
  THEN <<IF n > 0 THEN 1 ELSE IF n < 0 THEN -1 ELSE 0, 0>>
  ELSE LET g == Gcd(IAbs(n), IAbs(d))
           s == IF d < 0 THEN -1 ELSE 1
       IN  <<(s * n) \div g, (s * d) \div g>>

I(i) == <<i, 1>>

RAdd(a, b) == Q(a[1] * b[2] + b[1] * a[2], a[2] * b[2])
RSub(a, b) == Q(a[1] * b[2] - b[1] * a[2], a[2] * b[2])
RMul(a, b) == Q(a[1] * b[1], a[2] * b[2])
RDiv(a, b) == Q(a[1] * b[2], a[2] * b[1])
RNeg(a) == <<-a[1], a[2]>>
RLt(a, b) == a[1] * b[2] < b[1] * a[2]
RLe(a, b) == a[1] * b[2] <= b[1] * a[2]
RGt(a, b) == RLt(b, a)
RGe(a, b) == RLe(b, a)
RAbs(a) == <<IAbs(a[1]), a[2]>>
RIsZero(a) == a[1] = 0 /\ a[2] # 0

\* floor ()
RFloor(a) == a[1] \div a[2]

\* (gint) of a gdouble: truncation toward zero
RTrunc(a) == IF a[1] >= 0 THEN a[1] \div a[2] ELSE -((-a[1]) \div a[2])

\* the C macros MIN, MAX and CLAMP of glib, on gdouble and on gint
RMIN(a, b) == IF RLt(a, b) THEN a ELSE b
RMAX(a, b) == IF RGt(a, b) THEN a ELSE b
RCLAMP(x, low, high) == IF RGt(x, high) THEN high ELSE IF RLt(x, low) THEN low ELSE x
IMIN(a, b) == IF a < b THEN a ELSE b
IMAX(a, b) == IF a > b THEN a ELSE b
ICLAMP(x, low, high) == IF x > high THEN high ELSE IF x < low THEN low ELSE x

\* C integer division of non-negative operands
CDiv(a, b) == IF a >= 0 THEN a \div b ELSE -((-a) \div b)

-----------------------------------------------------------------------------
(* binary64: what floor () is applied to is computed as the machine computes *)
(* it, each operation rounded to nearest, ties to even, at DBL_MANT_DIG bits *)

DBL_MANT_DIG == 53

\* naturals of any size: their limbs below LIMB, least significant first
LIMB == 2 ^ 12

RECURSIVE BFromInt(_)
BFromInt(n) == IF n = 0 THEN <<>> ELSE <<n % LIMB>> \o BFromInt(n \div LIMB)

RECURSIVE BToInt(_)
BToInt(a) == IF a = <<>> THEN 0 ELSE a[1] + LIMB * BToInt(Tail(a))

RECURSIVE BTrim(_)
BTrim(a) ==
  IF a = <<>> \/ a[Len(a)] # 0 THEN a ELSE BTrim(SubSeq(a, 1, Len(a) - 1))

\* a * k + carry, for a small k
RECURSIVE BMulSmall(_, _, _)
BMulSmall(a, k, carry) ==
  IF a = <<>>
  THEN BFromInt(carry)
  ELSE LET t == a[1] * k + carry
       IN  <<t % LIMB>> \o BMulSmall(Tail(a), k, t \div LIMB)

\* a + b + carry
RECURSIVE BAdd(_, _, _)
BAdd(a, b, carry) ==
  IF a = <<>> /\ b = <<>>
  THEN BFromInt(carry)
  ELSE LET x == IF a = <<>> THEN 0 ELSE a[1]
           y == IF b = <<>> THEN 0 ELSE b[1]
           t == x + y + carry
       IN  <<t % LIMB>> \o BAdd(IF a = <<>> THEN a ELSE Tail(a),
                                IF b = <<>> THEN b ELSE Tail(b), t \div LIMB)

\* a - b - borrow, for a >= b + borrow
RECURSIVE BSubLimbs(_, _, _)
BSubLimbs(a, b, borrow) ==
  IF a = <<>>
  THEN <<>>
  ELSE LET y == IF b = <<>> THEN 0 ELSE b[1]
           t == a[1] - y - borrow
       IN  <<t % LIMB>> \o BSubLimbs(Tail(a), IF b = <<>> THEN b ELSE Tail(b),
                                     IF t < 0 THEN 1 ELSE 0)

BSub(a, b) == BTrim(BSubLimbs(a, b, 0))

\* quotient and remainder of a by a small k
RECURSIVE BDivLimbs(_, _)
BDivLimbs(a, k) ==
  IF a = <<>>
  THEN [q |-> <<>>, r |-> 0]
  ELSE LET hi == BDivLimbs(Tail(a), k)
           t == hi.r * LIMB + a[1]
       IN  [q |-> <<t \div k>> \o hi.q, r |-> t % k]

BDivSmall(a, k) ==
  LET d == BDivLimbs(a, k) IN [q |-> BTrim(d.q), r |-> d.r]

RECURSIVE Pow2(_)
Pow2(i) == IF i <= 0 THEN 1 ELSE 2 * Pow2(i - 1)

\* a * 2^bits and a \div 2^bits, by whole limbs and then within a limb
BShl(a, bits) ==
  IF a = <<>>
  THEN a
  ELSE [i \in 1..(bits \div 12) |-> 0] \o BMulSmall(a, Pow2(bits % 12), 0)

BShr(a, bits) ==
  IF bits \div 12 >= Len(a)
  THEN <<>>
  ELSE BDivSmall(SubSeq(a, bits \div 12 + 1, Len(a)), Pow2(bits % 12)).q

\* the bits of a small number, and of a
RECURSIVE IBits(_)
IBits(i) == IF i = 0 THEN 0 ELSE 1 + IBits(i \div 2)

BBits(a) == IF a = <<>> THEN 0 ELSE 12 * (Len(a) - 1) + IBits(a[Len(a)])

\* a < b
RECURSIVE BLess(_, _)
BLess(a, b) ==
  IF Len(a) # Len(b)
  THEN Len(a) < Len(b)
  ELSE IF a = <<>>
  THEN FALSE
  ELSE IF a[Len(a)] # b[Len(b)]
  THEN a[Len(a)] < b[Len(b)]
  ELSE BLess(SubSeq(a, 1, Len(a) - 1), SubSeq(b, 1, Len(b) - 1))

\* whether the quotient q, of which rem below 2 * half was dropped, rounds up:
\* to nearest, a tie to even unless something more was left out (sticky)
DRoundsUp(q, rem, half, sticky) ==
  \/ BLess(half, rem)
  \/ (rem = half /\ (sticky \/ BDivSmall(q, 2).r = 1))

\* m * 2^e, m made to fit when rounding up carried it to 2^53
DNormal(m, e) ==
  IF BBits(m) > DBL_MANT_DIG
  THEN [m |-> BShr(m, 1), e |-> e + 1]
  ELSE [m |-> m, e |-> e]

\* n * 2^e rounded by dropping drop bits, q what is left of n
DRoundAt(n, e, sticky, drop, q) ==
  DNormal(IF DRoundsUp(q, BSub(n, BShl(q, drop)), BShl(<<1>>, drop - 1), sticky)
          THEN BAdd(q, <<1>>, 0)
          ELSE q,
          e + drop)

\* the binary64 nearest to n * 2^e, or to a little above it when sticky (what
\* was left out of n is not zero): [m, e], standing for m * 2^e, m below 2^53
DRound(n, e, sticky) ==
  IF BBits(n) <= DBL_MANT_DIG
  THEN [m |-> n, e |-> e]
  ELSE DRoundAt(n, e, sticky, BBits(n) - DBL_MANT_DIG,
                BShr(n, BBits(n) - DBL_MANT_DIG))

\* the binary64 nearest to scaled.q * 2^-80, scaled.r what the division left
DFromScaled(scaled) == DRound(scaled.q, -80, scaled.r # 0)

\* the binary64 a decimal or a quotient n / d is stored as (n >= 0, d > 0)
DFromRational(n, d) == DFromScaled(BDivSmall(BShl(BFromInt(n), 80), d))

\* x * k, for a small integer k
DMul(x, k) == DRound(BMulSmall(x.m, k, 0), x.e, FALSE)

\* m * 2^e and 2^-1 brought to one exponent
DAlignHalf(x) ==
  IF x.e >= -1
  THEN [m |-> BShl(x.m, x.e + 1), half |-> <<1>>, e |-> -1]
  ELSE [m |-> x.m, half |-> BShl(<<1>>, (-1) - x.e), e |-> x.e]

\* a.m + a.half, a.m <= a.half and a.m - a.half for a.m > a.half
DAddAligned(a) == DRound(BAdd(a.m, a.half, 0), a.e, FALSE)
DAtMostAligned(a) == ~BLess(a.half, a.m)
DSubAligned(a) == DRound(BSub(a.m, a.half), a.e, FALSE)

\* x + 0.5, x <= 0.5 and x - 0.5 for x > 0.5
DAddHalf(x) == DAddAligned(DAlignHalf(x))
DAtMostHalf(x) == DAtMostAligned(DAlignHalf(x))
DSubHalf(x) == DSubAligned(DAlignHalf(x))

\* floor (x) and ceil (x)
DFloor(x) == BToInt(IF x.e >= 0 THEN BShl(x.m, x.e) ELSE BShr(x.m, -x.e))
DCeil(x) ==
  IF x.e >= 0 \/ BShl(BShr(x.m, -x.e), -x.e) = x.m
  THEN DFloor(x)
  ELSE DFloor(x) + 1

\* floor (a + 0.5), or floor (-a + 0.5) = -ceil (a - 0.5) for a negative value
DFloorHalfUp(a, negative) ==
  IF ~negative
  THEN DFloor(DAddHalf(a))
  ELSE IF DAtMostHalf(a)
  THEN 0
  ELSE -DCeil(DSubHalf(a))

\* floor ((value * power) + 0.5), value the binary64 stored for the rational
DFloorScaled(value, power) ==
  DFloorHalfUp(DMul(DFromRational(IAbs(value[1]), value[2]), power),
               value[1] < 0)

-----------------------------------------------------------------------------
(* program constants *)

TIMEOUT_INITIAL == 500
TIMEOUT_REPEAT == 250
AUTOSCROLL_FACTOR == 20
SCROLL_EDGE_SIZE == 15
MARK_SNAP_LENGTH == 12

G_MININT == (-2147483647) - 1
G_MAXDOUBLE == <<1000000, 1>>

NULL == "NULL"
\* priv->timer == NULL: no GtkRangeStepTimer record
NO_TIMER == [timeout_id |-> "none", step |-> "NONE"]
slider_widget == "slider"
trough_widget == "trough"
range_widget == "range"

GTK_SCROLL_NONE == "NONE"
GTK_SCROLL_JUMP == "JUMP"
GTK_SCROLL_STEP_BACKWARD == "STEP_BACKWARD"
GTK_SCROLL_STEP_FORWARD == "STEP_FORWARD"
GTK_SCROLL_PAGE_BACKWARD == "PAGE_BACKWARD"
GTK_SCROLL_PAGE_FORWARD == "PAGE_FORWARD"
GTK_SCROLL_STEP_UP == "STEP_UP"
GTK_SCROLL_STEP_DOWN == "STEP_DOWN"
GTK_SCROLL_PAGE_UP == "PAGE_UP"
GTK_SCROLL_PAGE_DOWN == "PAGE_DOWN"
GTK_SCROLL_STEP_LEFT == "STEP_LEFT"
GTK_SCROLL_STEP_RIGHT == "STEP_RIGHT"
GTK_SCROLL_PAGE_LEFT == "PAGE_LEFT"
GTK_SCROLL_PAGE_RIGHT == "PAGE_RIGHT"
GTK_SCROLL_START == "START"
GTK_SCROLL_END == "END"

GtkScrollType ==
  { GTK_SCROLL_NONE, GTK_SCROLL_JUMP,
    GTK_SCROLL_STEP_BACKWARD, GTK_SCROLL_STEP_FORWARD,
    GTK_SCROLL_PAGE_BACKWARD, GTK_SCROLL_PAGE_FORWARD,
    GTK_SCROLL_STEP_UP, GTK_SCROLL_STEP_DOWN,
    GTK_SCROLL_PAGE_UP, GTK_SCROLL_PAGE_DOWN,
    GTK_SCROLL_STEP_LEFT, GTK_SCROLL_STEP_RIGHT,
    GTK_SCROLL_PAGE_LEFT, GTK_SCROLL_PAGE_RIGHT,
    GTK_SCROLL_START, GTK_SCROLL_END }

GDK_BUTTON_PRIMARY == 1
GDK_BUTTON_MIDDLE == 2
GDK_BUTTON_SECONDARY == 3

-----------------------------------------------------------------------------
(* the widget's surroundings *)

\* gtk_widget_get_width / _height of the trough along the range's axis, as
\* the ranges followed through their callbacks have it; the range has no
\* border, so the trough starts at 0 and fills the range
TroughLength == 32
TroughStart == 0
\* the slider's measured minimum size along the range's axis, likewise
SliderMinSize == 2

\* callbacks the widget is followed for after its construction
MaxEvents == 5

-----------------------------------------------------------------------------
(* the GtkAdjustment: value, bounds, increments *)

AdjRange(r) == RSub(r.adj.upper, r.adj.lower)
AdjTravel(r) == RSub(RSub(r.adj.upper, r.adj.lower), r.adj.page_size)
AdjTop(r) == RSub(r.adj.upper, r.adj.page_size)

\* the value the adjustment stores for a requested value: clamped into its bounds
AdjClamp(a, value) ==
  RCLAMP(value, a.lower, RMAX(a.lower, RSub(a.upper, a.page_size)))

-----------------------------------------------------------------------------
(* geometry *)

\* should_invert that leaves the text direction out
should_invert_unflipped(r) == r.priv.inverted

should_invert(r) ==
  IF r.priv.orientation = "HORIZONTAL"
  THEN \/ (r.priv.inverted /\ ~r.priv.flippable)
       \/ (r.priv.inverted /\ r.priv.flippable /\ r.w.direction = "LTR")
       \/ (~r.priv.inverted /\ r.priv.flippable /\ r.w.direction = "RTL")
  ELSE r.priv.inverted

\* gtk_widget_pick along the range's axis: the deepest child under the point
gtk_widget_pick(r, pos) ==
  IF pos >= TroughStart + r.w.slider_alloc.x
     /\ pos < TroughStart + r.w.slider_alloc.x + r.w.slider_alloc.length
     /\ pos >= TroughStart /\ pos < TroughStart + r.w.trough_length
  THEN slider_widget
  ELSE IF pos >= TroughStart /\ pos < TroughStart + r.w.trough_length
  THEN trough_widget
  ELSE NULL

gtk_range_update_mouse_location(r) ==
  [r EXCEPT !.priv.mouse_location =
     IF r.priv.grab_location # NULL
     THEN r.priv.grab_location
     ELSE gtk_widget_pick(r, r.priv.mouse_pos)]

\* CoordFrac that divides whatever the lengths are
CoordFrac_unguarded(r, coord) ==
  RDiv(RMAX(I(0), RSub(coord, I(TroughStart))),
       I(r.w.trough_length - r.w.slider_alloc.length))

\* the fraction MAX (0, coord - trough_start) / (trough_length - slider_length)
CoordFrac(r, coord) ==
  IF r.w.trough_length = r.w.slider_alloc.length
  THEN I(1)
  ELSE RDiv(RMAX(I(0), RSub(coord, I(TroughStart))),
            I(r.w.trough_length - r.w.slider_alloc.length))

coord_to_value(r, coord) ==
  LET frac0 == CoordFrac(r, coord)
      frac == IF should_invert(r) THEN RSub(I(1), frac0) ELSE frac0
  IN  RAdd(r.adj.lower, RMul(frac, AdjTravel(r)))

\* the slider's start and length along the range's axis, in trough coordinates
gtk_range_compute_slider_position(r, adjustment_value) ==
  LET min_slider_size == r.w.min_slider_size
      left == IF r.w.is_scale THEN 0 - CDiv(min_slider_size, 2) ELSE 0
      right == IF r.w.is_scale
               THEN r.w.trough_length + CDiv(min_slider_size, 2)
               ELSE r.w.trough_length
      width0 == IF ~RIsZero(AdjRange(r))
                THEN RTrunc(RMul(I(right - left),
                                 RDiv(r.adj.page_size, AdjRange(r))))
                ELSE min_slider_size
      width1 == IF width0 < min_slider_size \/ r.priv.slider_size_fixed
                THEN min_slider_size
                ELSE width0
      width == IMIN(width1, r.w.trough_length)
      x0 == IF ~RIsZero(AdjTravel(r))
            THEN RTrunc(RAdd(I(left),
                             RMul(I(right - left - width),
                                  RDiv(RSub(adjustment_value, r.adj.lower),
                                       AdjTravel(r)))))
            ELSE left
      x1 == ICLAMP(x0, left, right)
      x == IF should_invert(r) THEN right - (x1 - left + width) ELSE x1
  IN  [x |-> x, length |-> width]

\* gtk_range_calc_slider: the allocation is queued, the mouse location is
\* looked up again
gtk_range_calc_slider(r) == gtk_range_update_mouse_location(r)

gtk_range_adjustment_value_changed(r) == gtk_range_calc_slider(r)

\* gtk_adjustment_set_value: the value is clamped and, when it changes,
\* value-changed is emitted
gtk_adjustment_set_value(r, value) ==
  LET v == AdjClamp(r.adj, value)
  IN  IF v = r.adj.value
      THEN r
      ELSE gtk_range_adjustment_value_changed([r EXCEPT !.adj.value = v])

\* gtk_adjustment_animate_to_value: no animation is enabled on the range's
\* adjustment, so the target is set at once
gtk_adjustment_animate_to_value(r, value) == gtk_adjustment_set_value(r, value)

-----------------------------------------------------------------------------
(* the change-value funnel *)

RECURSIVE Pow10(_)
Pow10(i) == IF i <= 0 THEN 1 ELSE 10 * Pow10(i - 1)

\* RoundDigits without the half added: floor (value * power) / power
RoundDigitsTruncating(value, digits) ==
  LET power == Pow10(digits)
  IN  Q(RFloor(RMul(value, I(power))), power)

\* floor ((value * power) + 0.5) / power, power = 10^digits by the loop
RoundDigits(value, digits) ==
  LET power == Pow10(digits)
  IN  Q(DFloorScaled(value, power), power)

\* MIN (value, MAX (lower, fill_level)) when restrict_to_fill_level
FillCap(r, value) ==
  IF r.priv.restrict_to_fill_level
  THEN RMIN(value, RMAX(r.adj.lower, r.priv.fill_level))
  ELSE value

\* the value the default handler hands to the adjustment
FunnelValue(r, value) ==
  LET capped == FillCap(r, value)
      clamped == RCLAMP(capped, r.adj.lower, AdjTop(r))
  IN  IF r.priv.round_digits >= 0
      THEN RoundDigits(clamped, r.priv.round_digits)
      ELSE clamped

\* whether the default handler sets the value directly
FunnelSetsDirectly(r) == r.priv.in_drag \/ r.priv.autoscroll_id # 0

\* a handler an application connects to adjust-bounds to make room for the
\* value: it lowers lower and raises upper as far as the value needs
adjust_bounds_listener(r, value) ==
  IF r.w.widens_bounds
  THEN [r EXCEPT !.adj.lower = RMIN(@, value),
                 !.adj.upper = RMAX(@, RAdd(value, r.adj.page_size))]
  ELSE r

\* g_signal_emit (range, signals[ADJUST_BOUNDS], 0, value)
emit_adjust_bounds(r, value) ==
  adjust_bounds_listener([r EXCEPT !.ev.adjust_bounds = Append(@, value)],
                         value)

\* what the class handler leaves in the callback's log
Committed(scroll, value, how, handed, ret) ==
  [scroll |-> scroll, value |-> value, how |-> how, handed |-> handed,
   ret |-> ret]

\* the handler's last step, on the value v made of the proposed value
FunnelCommit(r, scroll, value, v, direct, ret) ==
  IF direct
  THEN gtk_adjustment_set_value(
         [r EXCEPT !.ev.commits =
            Append(@, Committed(scroll, value, "set_value", v, ret))], v)
  ELSE gtk_adjustment_animate_to_value(
         [r EXCEPT !.ev.commits =
            Append(@, Committed(scroll, value, "animate_to_value", v, ret))], v)

\* gtk_range_real_change_value that always animates to the value
gtk_range_real_change_value_animating(r, scroll, value) ==
  FunnelCommit(emit_adjust_bounds(r, value), scroll, value,
               FunnelValue(emit_adjust_bounds(r, value), value), FALSE, FALSE)

\* gtk_range_real_change_value that returns whether the value was handed on
\* as it came
gtk_range_real_change_value_verbatim(r, scroll, value) ==
  FunnelCommit(emit_adjust_bounds(r, value), scroll, value,
               FunnelValue(emit_adjust_bounds(r, value), value),
               FunnelSetsDirectly(r),
               FunnelValue(emit_adjust_bounds(r, value), value) = value)

\* gtk_range_real_change_value that clamps to the bounds it finds and emits
\* adjust-bounds afterwards
gtk_range_real_change_value_clamping_first(r, scroll, value) ==
  FunnelCommit(emit_adjust_bounds(r, value), scroll, value,
               FunnelValue(r, value), FunnelSetsDirectly(r), FALSE)

\* gtk_range_real_change_value, the class handler of change-value:
\* adjust-bounds is emitted with the value as it came, then the value is
\* capped, clamped to the bounds as the handlers left them, rounded and
\* handed to the adjustment; it returns FALSE
gtk_range_real_change_value(r, scroll, value) ==
  FunnelCommit(emit_adjust_bounds(r, value), scroll, value,
               FunnelValue(emit_adjust_bounds(r, value), value),
               FunnelSetsDirectly(r), FALSE)

\* an emission that runs the class handler whatever the listeners return
emit_change_value_unaccumulated(r, scroll, value, h) ==
  gtk_range_real_change_value(
    [r EXCEPT !.ev.emits =
       Append(@, [scroll |-> scroll, value |-> value,
                  listener |-> h /\ r.w.has_listener,
                  before |-> r.adj.value])],
    scroll, value)

\* g_signal_emit (range, signals[CHANGE_VALUE], 0, scroll, value, &handled):
\* RUN_LAST with the boolean-handled accumulator: the listeners run first, and
\* one that returns TRUE (h) ends the emission before the class handler
emit_change_value(r, scroll, value, h) ==
  LET listener == h /\ r.w.has_listener
      r1 == [r EXCEPT !.ev.emits =
               Append(@, [scroll |-> scroll, value |-> value,
                          listener |-> listener, before |-> r.adj.value])]
  IN  IF listener
      THEN r1
      ELSE gtk_range_real_change_value(r1, scroll, value)

-----------------------------------------------------------------------------
(* keyboard scroll actions *)

RECURSIVE apply_marks_from(_, _, _, _)
apply_marks_from(marks, i, oldval, newval) ==
  IF i > Len(marks)
  THEN newval
  ELSE IF \/ (RLt(oldval, marks[i]) /\ RLt(marks[i], newval))
          \/ (RGt(oldval, marks[i]) /\ RGt(marks[i], newval))
       THEN marks[i]
       ELSE apply_marks_from(marks, i + 1, oldval, newval)

\* apply_marks that leaves the value as it is
apply_marks_ignored(r, oldval, newval) == newval

apply_marks(r, oldval, newval) == apply_marks_from(r.priv.marks, 1, oldval, newval)

step_back(r, h) ==
  emit_change_value(r, GTK_SCROLL_STEP_BACKWARD,
    apply_marks(r, r.adj.value, RSub(r.adj.value, r.adj.step_increment)), h)

step_forward(r, h) ==
  emit_change_value(r, GTK_SCROLL_STEP_FORWARD,
    apply_marks(r, r.adj.value, RAdd(r.adj.value, r.adj.step_increment)), h)

page_back(r, h) ==
  emit_change_value(r, GTK_SCROLL_PAGE_BACKWARD,
    apply_marks(r, r.adj.value, RSub(r.adj.value, r.adj.page_increment)), h)

page_forward(r, h) ==
  emit_change_value(r, GTK_SCROLL_PAGE_FORWARD,
    apply_marks(r, r.adj.value, RAdd(r.adj.value, r.adj.page_increment)), h)

scroll_begin(r, h) == emit_change_value(r, GTK_SCROLL_START, r.adj.lower, h)

scroll_end(r, h) == emit_change_value(r, GTK_SCROLL_END, AdjTop(r), h)

\* gtk_range_scroll that takes left and up for backward, right and down for
\* forward, whatever the inversion
gtk_range_scroll_unmapped(r, scroll, h) ==
  CASE scroll \in {GTK_SCROLL_STEP_LEFT, GTK_SCROLL_STEP_UP,
                   GTK_SCROLL_STEP_BACKWARD} -> step_back(r, h)
    [] scroll \in {GTK_SCROLL_STEP_RIGHT, GTK_SCROLL_STEP_DOWN,
                   GTK_SCROLL_STEP_FORWARD} -> step_forward(r, h)
    [] scroll \in {GTK_SCROLL_PAGE_LEFT, GTK_SCROLL_PAGE_UP,
                   GTK_SCROLL_PAGE_BACKWARD} -> page_back(r, h)
    [] scroll \in {GTK_SCROLL_PAGE_RIGHT, GTK_SCROLL_PAGE_DOWN,
                   GTK_SCROLL_PAGE_FORWARD} -> page_forward(r, h)
    [] scroll = GTK_SCROLL_START -> scroll_begin(r, h)
    [] scroll = GTK_SCROLL_END -> scroll_end(r, h)
    [] OTHER -> r

\* gtk_range_scroll: the state after the action (its result, whether the
\* value changed, is ScrollChanged)
gtk_range_scroll(r, scroll, h) ==
  CASE scroll \in {GTK_SCROLL_STEP_LEFT, GTK_SCROLL_STEP_UP} ->
         IF should_invert(r) THEN step_forward(r, h) ELSE step_back(r, h)
    [] scroll \in {GTK_SCROLL_STEP_RIGHT, GTK_SCROLL_STEP_DOWN} ->
         IF should_invert(r) THEN step_back(r, h) ELSE step_forward(r, h)
    [] scroll = GTK_SCROLL_STEP_BACKWARD -> step_back(r, h)
    [] scroll = GTK_SCROLL_STEP_FORWARD -> step_forward(r, h)
    [] scroll \in {GTK_SCROLL_PAGE_LEFT, GTK_SCROLL_PAGE_UP} ->
         IF should_invert(r) THEN page_forward(r, h) ELSE page_back(r, h)
    [] scroll \in {GTK_SCROLL_PAGE_RIGHT, GTK_SCROLL_PAGE_DOWN} ->
         IF should_invert(r) THEN page_back(r, h) ELSE page_forward(r, h)
    [] scroll = GTK_SCROLL_PAGE_BACKWARD -> page_back(r, h)
    [] scroll = GTK_SCROLL_PAGE_FORWARD -> page_forward(r, h)
    [] scroll = GTK_SCROLL_START -> scroll_begin(r, h)
    [] scroll = GTK_SCROLL_END -> scroll_end(r, h)
    [] OTHER -> r

ScrollChanged(r, scroll, h) == gtk_range_scroll(r, scroll, h).adj.value # r.adj.value

\* gtk_range_move_slider that rings only when the default handler ran
gtk_range_move_slider_at_bound(r, scroll, h) ==
  IF ~ScrollChanged(r, scroll, h) /\ gtk_range_scroll(r, scroll, h).ev.commits # <<>>
  THEN [gtk_range_scroll(r, scroll, h) EXCEPT !.ev.bell = TRUE]
  ELSE gtk_range_scroll(r, scroll, h)

gtk_range_move_slider(r, scroll, h) ==
  IF ~ScrollChanged(r, scroll, h)
  THEN [gtk_range_scroll(r, scroll, h) EXCEPT !.ev.bell = TRUE]
  ELSE gtk_range_scroll(r, scroll, h)

-----------------------------------------------------------------------------
(* the repeat timer *)

\* a failed g_return_if_fail / g_assert_not_reached, as the handler logs it
Critical(r, what) == [r EXCEPT !.ev.critical = Append(@, what)]

\* gdk_threads_add_timeout: a pending timeout source, named by its callback
\* (the id the timer record keeps), which fires after interval milliseconds
TimeoutSource(interval, func) == [func |-> func, interval |-> interval]

\* g_source_remove: one source of that id taken out of the pending ones
RECURSIVE RemoveSource(_, _)
RemoveSource(sources, id) ==
  IF sources = <<>>
  THEN <<>>
  ELSE IF Head(sources).func = id
       THEN Tail(sources)
       ELSE <<Head(sources)>> \o RemoveSource(Tail(sources), id)

\* a timeout callback that finds no timer record reads through a NULL pointer
second_timeout(r, h) ==
  IF r.priv.timer = NO_TIMER
  THEN Critical(r, "priv->timer is NULL")
  ELSE gtk_range_scroll(r, r.priv.timer.step, h)

\* initial_timeout that also scrolls by the timer's step when it expires
initial_timeout_stepping(r) ==
  IF r.priv.timer = NO_TIMER
  THEN Critical([r EXCEPT !.w.sources = RemoveSource(@, "initial_timeout")],
                "priv->timer is NULL")
  ELSE gtk_range_scroll(
         [r EXCEPT !.w.sources =
                     Append(RemoveSource(@, "initial_timeout"),
                            TimeoutSource(TIMEOUT_REPEAT, "second_timeout")),
                   !.priv.timer.timeout_id = "second_timeout"],
         r.priv.timer.step, FALSE)

\* the initial source removes itself (G_SOURCE_REMOVE) after it has added the
\* repeating one
initial_timeout(r) ==
  IF r.priv.timer = NO_TIMER
  THEN Critical([r EXCEPT !.w.sources = RemoveSource(@, "initial_timeout")],
                "priv->timer is NULL")
  ELSE
  [r EXCEPT !.w.sources =
              Append(RemoveSource(@, "initial_timeout"),
                     TimeoutSource(TIMEOUT_REPEAT, "second_timeout")),
            !.priv.timer.timeout_id = "second_timeout"]

\* gtk_range_add_step_timer without its g_return_if_fail (priv->timer == NULL)
gtk_range_add_step_timer_unguarded(r, step, h) ==
  gtk_range_scroll(
    [r EXCEPT !.priv.timer = [timeout_id |-> "initial_timeout", step |-> step],
              !.w.sources =
                Append(@, TimeoutSource(TIMEOUT_INITIAL, "initial_timeout"))],
    step, h)

gtk_range_add_step_timer(r, step, h) ==
  IF r.priv.timer # NO_TIMER
  THEN Critical(r, "priv->timer == NULL")
  ELSE IF step = GTK_SCROLL_NONE
  THEN Critical(r, "step != GTK_SCROLL_NONE")
  ELSE gtk_range_scroll(
         [r EXCEPT !.priv.timer = [timeout_id |-> "initial_timeout",
                                   step |-> step],
                   !.w.sources =
                     Append(@, TimeoutSource(TIMEOUT_INITIAL,
                                             "initial_timeout"))],
         step, h)

gtk_range_remove_step_timer(r) ==
  IF r.priv.timer # NO_TIMER
  THEN [r EXCEPT !.w.sources = RemoveSource(@, r.priv.timer.timeout_id),
                 !.priv.timer = NO_TIMER]
  ELSE r

-----------------------------------------------------------------------------
(* the autoscroll driver *)

remove_autoscroll(r) ==
  LET r1 == IF r.priv.autoscroll_id # 0
            THEN [r EXCEPT !.w.tick_callbacks = @ - 1,
                           !.priv.autoscroll_id = 0]
            ELSE r
  IN  [r1 EXCEPT !.priv.slide_initial_slider_position = -1,
                 !.priv.autoscroll_mode = GTK_SCROLL_NONE]

add_autoscroll(r) ==
  IF r.priv.autoscroll_id # 0 \/ r.priv.autoscroll_mode = GTK_SCROLL_NONE
  THEN r
  ELSE [r EXCEPT !.w.tick_callbacks = @ + 1,
                 !.priv.autoscroll_id = 1]

\* AutoscrollSpeed that stops growing 100 pixels past the threshold
AutoscrollSpeed_saturating_early(r) ==
  RAdd(RMul(RSub(I(1),
                 Q(ICLAMP(IAbs(IF r.w.drag_active THEN r.w.drag_offset ELSE 0)
                            - 20, 0, 100), 100)),
            r.adj.step_increment),
       RMul(Q(ICLAMP(IAbs(IF r.w.drag_active THEN r.w.drag_offset ELSE 0)
                       - 20, 0, 100), 100),
            r.adj.page_increment))

\* the speed of START / END autoscroll: the step increment blended into the
\* page increment by the pointer's distance across the range's axis
AutoscrollSpeed(r) ==
  LET offset == IF r.w.drag_active THEN r.w.drag_offset ELSE 0
      distance == ICLAMP(IAbs(offset) - 20, 0, 200)
      t == Q(distance, 100)
  IN  RAdd(RMul(RSub(I(1), t), r.adj.step_increment),
           RMul(t, r.adj.page_increment))

AutoscrollIncrement(r) ==
  CASE r.priv.autoscroll_mode = GTK_SCROLL_STEP_FORWARD ->
         RDiv(r.adj.step_increment, I(AUTOSCROLL_FACTOR))
    [] r.priv.autoscroll_mode = GTK_SCROLL_PAGE_FORWARD ->
         RDiv(r.adj.page_increment, I(AUTOSCROLL_FACTOR))
    [] r.priv.autoscroll_mode = GTK_SCROLL_STEP_BACKWARD ->
         RDiv(RNeg(r.adj.step_increment), I(AUTOSCROLL_FACTOR))
    [] r.priv.autoscroll_mode = GTK_SCROLL_PAGE_BACKWARD ->
         RDiv(RNeg(r.adj.page_increment), I(AUTOSCROLL_FACTOR))
    [] r.priv.autoscroll_mode = GTK_SCROLL_END ->
         RDiv(AutoscrollSpeed(r), I(AUTOSCROLL_FACTOR))
    [] r.priv.autoscroll_mode = GTK_SCROLL_START ->
         RDiv(RNeg(AutoscrollSpeed(r)), I(AUTOSCROLL_FACTOR))

autoscroll_cb(r, h) ==
  IF r.priv.autoscroll_mode \in
       {GTK_SCROLL_STEP_FORWARD, GTK_SCROLL_PAGE_FORWARD,
        GTK_SCROLL_STEP_BACKWARD, GTK_SCROLL_PAGE_BACKWARD,
        GTK_SCROLL_START, GTK_SCROLL_END}
  THEN emit_change_value(r, GTK_SCROLL_JUMP,
                         RAdd(r.adj.value, AutoscrollIncrement(r)), h)
  ELSE Critical(r, "g_assert_not_reached")

gtk_range_start_autoscroll(r, scroll_type) ==
  add_autoscroll(
    [remove_autoscroll(r) EXCEPT !.priv.autoscroll_mode = scroll_type])

gtk_range_stop_autoscroll(r) == remove_autoscroll(r)

-----------------------------------------------------------------------------
(* the grab *)

range_grab_add(r, location) == [r EXCEPT !.priv.grab_location = location]

\* update_zoom_state that changes the style class only
update_zoom_state_styling(r, enabled) == r

update_zoom_state(r, enabled) == [r EXCEPT !.priv.zoom = enabled]

range_grab_remove(r) ==
  IF r.priv.grab_location = NULL
  THEN r
  ELSE update_zoom_state(
         gtk_range_update_mouse_location(
           [r EXCEPT !.priv.grab_location = NULL]),
         FALSE)

range_get_scroll_for_grab(r) ==
  IF r.priv.grab_location = NULL
  THEN GTK_SCROLL_NONE
  ELSE IF r.priv.grab_location = trough_widget
  THEN IF r.priv.trough_click_forward
       THEN GTK_SCROLL_PAGE_FORWARD
       ELSE GTK_SCROLL_PAGE_BACKWARD
  ELSE GTK_SCROLL_NONE

\* stop_scrolling that leaves the repeat timer running
stop_scrolling_keeping_timer(r) == remove_autoscroll(range_grab_remove(r))

stop_scrolling(r) ==
  remove_autoscroll(gtk_range_remove_step_timer(range_grab_remove(r)))

-----------------------------------------------------------------------------
(* dragging the slider *)

update_initial_slider_position(r, pos, slider_alloc) ==
  LET initial == IMAX(0, slider_alloc.x)
  IN  [r EXCEPT !.priv.slide_initial_slider_position = initial,
                !.priv.slide_initial_coordinate_delta = pos - initial]

\* ZoomFactor without the fixed factor that stands in for a ratio of 1.0
ZoomFactor_without_fallback(r) ==
  IF r.priv.zoom
  THEN IF RIsZero(AdjTravel(r))
       THEN I(1)
       ELSE RMIN(I(1), RDiv(I(r.w.trough_length), AdjTravel(r)))
  ELSE I(1)

\* the factor on the pointer's delta: MIN (1.0, trough / travel), 0.25 in place
\* of 1.0, while zoom is on; a zero travel divides to +infinity
ZoomFactor(r) ==
  IF r.priv.zoom
  THEN LET ratio == IF RIsZero(AdjTravel(r))
                    THEN I(1)
                    ELSE RMIN(I(1), RDiv(I(r.w.trough_length), AdjTravel(r)))
       IN  IF ratio = I(1) THEN Q(1, 4) ELSE ratio
  ELSE I(1)

\* the initial slider position recomputed from the current one, when it was
\* unset (-1): (zoom * (mouse - delta) - slider.x) / (zoom - 1.0), stored to a
\* gint; with zoom = 1.0 the quotient is not finite and the stored gint is
\* whatever the conversion yields (UndefinedInt)
RecomputedInitial(r, mouse, zoom, undefined) ==
  IF zoom = I(1)
  THEN undefined
  ELSE RTrunc(RDiv(RSub(RMul(zoom,
                             I(mouse - r.priv.slide_initial_coordinate_delta)),
                        I(r.w.slider_alloc.x)),
                   RSub(zoom, I(1))))

\* stand-ins for the gint a non-finite gdouble converts to: the most negative
\* gint, zero, the most positive gint
UndefinedInts == {-1000000, 0, 1000000}

RECURSIVE snap_from(_, _, _, _, _)
snap_from(marks, i, cur, new_value, mark_delta) ==
  IF i > Len(marks)
  THEN new_value
  ELSE IF /\ RLt(RAbs(RSub(cur, marks[i])), RMul(I(3), mark_delta))
          /\ RLt(RAbs(RSub(new_value, marks[i])),
                 RMul(I(MARK_SNAP_LENGTH), mark_delta))
       THEN marks[i]
       ELSE snap_from(marks, i + 1, cur, new_value, mark_delta)

\* update_slider_position that snaps to a mark near the pointer's value
\* wherever the current value is
update_slider_position_snapping_anywhere(r, mouse, h, undefined) ==
  LET zoom == ZoomFactor(r)
      initial == IF r.priv.slide_initial_slider_position = -1
                 THEN RecomputedInitial(r, mouse, zoom, undefined)
                 ELSE r.priv.slide_initial_slider_position
      r1 == [r EXCEPT !.priv.slide_initial_slider_position = initial]
      delta == mouse - (r.priv.slide_initial_coordinate_delta + initial)
      c == RAdd(I(initial), RMul(zoom, I(delta)))
      new_value == coord_to_value(r1, c)
      next_value == coord_to_value(r1, RAdd(c, I(1)))
      mark_delta == RAbs(RSub(next_value, new_value))
  IN  emit_change_value(r1, GTK_SCROLL_JUMP,
        snap_from(r.priv.marks, 1, new_value, new_value, mark_delta), h)

update_slider_position(r, mouse, h, undefined) ==
  LET zoom == ZoomFactor(r)
      initial == IF r.priv.slide_initial_slider_position = -1
                 THEN RecomputedInitial(r, mouse, zoom, undefined)
                 ELSE r.priv.slide_initial_slider_position
      r1 == [r EXCEPT !.priv.slide_initial_slider_position = initial]
      delta == mouse - (r.priv.slide_initial_coordinate_delta + initial)
      c == RAdd(I(initial), RMul(zoom, I(delta)))
      new_value == coord_to_value(r1, c)
      next_value == coord_to_value(r1, RAdd(c, I(1)))
      mark_delta == RAbs(RSub(next_value, new_value))
  IN  emit_change_value(r1, GTK_SCROLL_JUMP,
        snap_from(r.priv.marks, 1, r.adj.value, new_value, mark_delta), h)

\* update_autoscroll_mode whose edge zones take in their boundary pixels
update_autoscroll_mode_inclusive(r) ==
  IF (IF r.priv.zoom
      THEN IF r.priv.mouse_pos <= SCROLL_EDGE_SIZE
           THEN IF r.priv.inverted THEN GTK_SCROLL_STEP_FORWARD
                                   ELSE GTK_SCROLL_STEP_BACKWARD
           ELSE IF r.priv.mouse_pos >= r.w.trough_length - SCROLL_EDGE_SIZE
           THEN IF r.priv.inverted THEN GTK_SCROLL_STEP_BACKWARD
                                   ELSE GTK_SCROLL_STEP_FORWARD
           ELSE GTK_SCROLL_NONE
      ELSE GTK_SCROLL_NONE) # r.priv.autoscroll_mode
  THEN add_autoscroll(
         [remove_autoscroll(r) EXCEPT !.priv.autoscroll_mode =
            IF r.priv.zoom
            THEN IF r.priv.mouse_pos <= SCROLL_EDGE_SIZE
                 THEN IF r.priv.inverted THEN GTK_SCROLL_STEP_FORWARD
                                         ELSE GTK_SCROLL_STEP_BACKWARD
                 ELSE IF r.priv.mouse_pos >= r.w.trough_length - SCROLL_EDGE_SIZE
                 THEN IF r.priv.inverted THEN GTK_SCROLL_STEP_BACKWARD
                                         ELSE GTK_SCROLL_STEP_FORWARD
                 ELSE GTK_SCROLL_NONE
            ELSE GTK_SCROLL_NONE])
  ELSE r

update_autoscroll_mode(r) ==
  LET size == r.w.trough_length
      pos == r.priv.mouse_pos
      mode == IF r.priv.zoom
              THEN IF pos < SCROLL_EDGE_SIZE
                   THEN IF r.priv.inverted THEN GTK_SCROLL_STEP_FORWARD
                                           ELSE GTK_SCROLL_STEP_BACKWARD
                   ELSE IF pos > size - SCROLL_EDGE_SIZE
                   THEN IF r.priv.inverted THEN GTK_SCROLL_STEP_BACKWARD
                                           ELSE GTK_SCROLL_STEP_FORWARD
                   ELSE GTK_SCROLL_NONE
              ELSE GTK_SCROLL_NONE
  IN  IF mode # r.priv.autoscroll_mode
      THEN add_autoscroll([remove_autoscroll(r) EXCEPT !.priv.autoscroll_mode = mode])
      ELSE r

-----------------------------------------------------------------------------
(* the callbacks *)

\* no allocation of the trough and no geometry looked up in the callback
NoAllocation == [highlight |-> "none", fill |-> "none"]
NoProbe == [kind |-> "none"]

\* no button press: what the log of a callback names when it is not a press
\* followed for its button, modifier and device
NoPress == [button |-> 0, shift_pressed |-> FALSE, source |-> "NONE"]

\* the log of a callback that starts
Begin(r, name) ==
  [r EXCEPT !.ev = [name |-> name, request |-> GTK_SCROLL_NONE,
                    press |-> NoPress, allocated |-> NoAllocation,
                    probe |-> NoProbe,
                    emits |-> <<>>, adjust_bounds |-> <<>>,
                    commits |-> <<>>, critical |-> <<>>, bell |-> FALSE,
                    popup |-> FALSE],
            !.h.events = @ + 1]

\* the log of a move-slider action that starts, bound to the scroll type
BeginMove(r, scroll) == [Begin(r, "move_slider") EXCEPT !.ev.request = scroll]

\* WarpCondition without the touchscreen
WarpCondition_pointer_only(source, primary_warps, shift_pressed, button) ==
  \/ (primary_warps /\ ~shift_pressed /\ button = GDK_BUTTON_PRIMARY)
  \/ (~primary_warps /\ shift_pressed /\ button = GDK_BUTTON_PRIMARY)
  \/ (~primary_warps /\ button = GDK_BUTTON_MIDDLE)

WarpCondition(source, primary_warps, shift_pressed, button) ==
  \/ source = "TOUCHSCREEN"
  \/ (primary_warps /\ ~shift_pressed /\ button = GDK_BUTTON_PRIMARY)
  \/ (~primary_warps /\ shift_pressed /\ button = GDK_BUTTON_PRIMARY)
  \/ (~primary_warps /\ button = GDK_BUTTON_MIDDLE)

PageCondition(primary_warps, shift_pressed, button) ==
  \/ (primary_warps /\ shift_pressed /\ button = GDK_BUTTON_PRIMARY)
  \/ (~primary_warps /\ ~shift_pressed /\ button = GDK_BUTTON_PRIMARY)
  \/ (primary_warps /\ button = GDK_BUTTON_MIDDLE)

\* the warp branch that centres nothing: the slider is placed for the value
\* under the pointer
PressWarp_at_pointer(r, pos, h) ==
  update_slider_position(
    range_grab_add(
      update_initial_slider_position(
        r, pos, gtk_range_compute_slider_position(r, coord_to_value(r, I(pos)))),
      slider_widget),
    pos, h, 0)

\* the warp branch of the press handler; the initial slider position was just
\* set, so update_slider_position does not recompute it
PressWarp(r, pos, h) ==
  LET slider_high_value == coord_to_value(r, I(pos))
      slider_low_value == coord_to_value(r, I(pos - r.w.slider_alloc.length))
      new_value == RDiv(RAdd(slider_low_value, slider_high_value), I(2))
      slider == gtk_range_compute_slider_position(r, new_value)
  IN  update_slider_position(
        range_grab_add(update_initial_slider_position(r, pos, slider),
                       slider_widget),
        pos, h, 0)

\* the paging branch that takes a click at the current value for one ahead
PressPage_inclusive(r, pos, h) ==
  gtk_range_add_step_timer(
    range_grab_add(
      [r EXCEPT !.priv.trough_click_forward =
                  RGe(coord_to_value(r, I(pos)), r.adj.value)],
      trough_widget),
    IF RGe(coord_to_value(r, I(pos)), r.adj.value)
    THEN GTK_SCROLL_PAGE_FORWARD
    ELSE GTK_SCROLL_PAGE_BACKWARD,
    h)

\* the paging branch of the press handler
PressPage(r, pos, h) ==
  LET click_value == coord_to_value(r, I(pos))
      r1 == range_grab_add(
              [r EXCEPT !.priv.trough_click_forward =
                          RGt(click_value, r.adj.value)],
              trough_widget)
  IN  gtk_range_add_step_timer(r1, range_get_scroll_for_grab(r1), h)

\* the secondary-button branch that scrolls away from the click
PressAutoscroll_reversed(r, pos) ==
  add_autoscroll(
    [remove_autoscroll(
       range_grab_add(
         [r EXCEPT !.priv.trough_click_forward =
                     RGt(coord_to_value(r, I(pos)), r.adj.value)],
         trough_widget))
       EXCEPT !.priv.autoscroll_mode =
                IF RGt(coord_to_value(r, I(pos)), r.adj.value)
                THEN GTK_SCROLL_START
                ELSE GTK_SCROLL_END])

\* the secondary-button branch of the press handler
PressAutoscroll(r, pos) ==
  LET click_value == coord_to_value(r, I(pos))
      forward == RGt(click_value, r.adj.value)
      r1 == remove_autoscroll(
              range_grab_add([r EXCEPT !.priv.trough_click_forward = forward],
                             trough_widget))
  IN  add_autoscroll([r1 EXCEPT !.priv.autoscroll_mode =
                        IF forward THEN GTK_SCROLL_END ELSE GTK_SCROLL_START])

gtk_range_multipress_gesture_pressed(r, button, pos, shift_pressed, source, menu, h) ==
  LET r1 == gtk_range_update_mouse_location([r EXCEPT !.priv.mouse_pos = pos])
      primary_warps == r.w.primary_warps
  IN  IF r1.priv.mouse_location = slider_widget /\ menu
      THEN [r1 EXCEPT !.ev.popup = TRUE]
      ELSE IF r1.priv.mouse_location = slider_widget
      THEN range_grab_add(
             update_initial_slider_position(
               IF shift_pressed THEN update_zoom_state(r1, TRUE) ELSE r1,
               pos, r1.w.slider_alloc),
             slider_widget)
      ELSE IF /\ r1.priv.mouse_location = trough_widget
              /\ WarpCondition(source, primary_warps, shift_pressed, button)
      THEN PressWarp(r1, pos, h)
      ELSE IF /\ r1.priv.mouse_location = trough_widget
              /\ PageCondition(primary_warps, shift_pressed, button)
      THEN PressPage(r1, pos, h)
      ELSE IF /\ r1.priv.mouse_location = trough_widget
              /\ button = GDK_BUTTON_SECONDARY
      THEN PressAutoscroll(r1, pos)
      ELSE r1

gtk_range_multipress_gesture_released(r, pos) ==
  stop_scrolling([r EXCEPT !.priv.mouse_pos = pos, !.priv.in_drag = FALSE])

\* the drag update that does not look at the grab
gtk_range_drag_gesture_update_ungated(r, pos, h, undefined) ==
  IF update_autoscroll_mode(
       [r EXCEPT !.priv.mouse_pos = pos,
                 !.priv.in_drag = TRUE]).priv.autoscroll_mode = GTK_SCROLL_NONE
  THEN update_slider_position(
         update_autoscroll_mode([r EXCEPT !.priv.mouse_pos = pos,
                                          !.priv.in_drag = TRUE]),
         pos, h, undefined)
  ELSE update_autoscroll_mode([r EXCEPT !.priv.mouse_pos = pos,
                                        !.priv.in_drag = TRUE])

gtk_range_drag_gesture_update(r, pos, h, undefined) ==
  IF r.priv.grab_location = slider_widget
  THEN LET r1 == update_autoscroll_mode(
                   [r EXCEPT !.priv.mouse_pos = pos, !.priv.in_drag = TRUE])
       IN  IF r1.priv.autoscroll_mode = GTK_SCROLL_NONE
           THEN update_slider_position(r1, pos, h, undefined)
           ELSE r1
  ELSE r

\* the long press that does not look at the zoom state
gtk_range_long_press_gesture_pressed_rezooming(r, pos) ==
  IF gtk_range_update_mouse_location(r).priv.mouse_location = slider_widget
  THEN update_zoom_state(
         update_initial_slider_position(
           gtk_range_update_mouse_location(r), pos,
           gtk_range_update_mouse_location(r).w.slider_alloc),
         TRUE)
  ELSE gtk_range_update_mouse_location(r)

gtk_range_long_press_gesture_pressed(r, pos) ==
  LET r1 == gtk_range_update_mouse_location(r)
  IN  IF r1.priv.mouse_location = slider_widget /\ ~r1.priv.zoom
      THEN update_zoom_state(
             update_initial_slider_position(r1, pos, r1.w.slider_alloc), TRUE)
      ELSE r1

\* the Escape branch of gtk_range_key_press is taken
EscapeHandled(r, keyval, same_device) ==
  /\ r.w.drag_active
  /\ same_device
  /\ keyval = "Escape"
  /\ r.priv.grab_location # NULL

\* the Shift branch of gtk_range_key_press is taken
ShiftHandled(r, keyval, same_device) ==
  /\ ~EscapeHandled(r, keyval, same_device)
  /\ r.priv.in_drag
  /\ keyval \in {"Shift_L", "Shift_R"}

gtk_range_key_press(r, keyval, same_device) ==
  IF EscapeHandled(r, keyval, same_device)
  THEN stop_scrolling(r)
  ELSE IF ShiftHandled(r, keyval, same_device)
  THEN update_zoom_state(
         [r EXCEPT !.priv.slide_initial_slider_position = r.w.slider_alloc.x],
         ~r.priv.zoom)
  ELSE r

gtk_range_unmap(r) == stop_scrolling(r)

\* the scroll handler that negates the delta of a range shown mirrored
gtk_range_scroll_controller_scroll_mirrored(r, dx, dy, h) ==
  emit_change_value(
    r, GTK_SCROLL_JUMP,
    RAdd(r.adj.value,
         RMul(I((IF should_invert(r) THEN -1 ELSE 1)
                  * (IF r.priv.orientation = "HORIZONTAL"
                     THEN (IF dx # 0 THEN dx ELSE -dy)
                     ELSE dy)),
              r.adj.page_increment)),
    h)

gtk_range_scroll_controller_scroll(r, dx, dy, h) ==
  LET scroll_unit == r.adj.page_increment
      d == IF r.priv.orientation = "HORIZONTAL"
           THEN (IF dx # 0 THEN dx ELSE -dy)
           ELSE dy
      delta0 == RMul(I(d), scroll_unit)
      delta == IF r.priv.inverted THEN RNeg(delta0) ELSE delta0
  IN  emit_change_value(r, GTK_SCROLL_JUMP, RAdd(r.adj.value, delta), h)

\* the fraction of the trough the highlight is given: 0 when lower == upper
HighlightFraction(r) ==
  IF r.adj.lower = r.adj.upper
  THEN I(0)
  ELSE RDiv(RSub(r.adj.value, r.adj.lower), AdjRange(r))

\* the fraction of the trough the fill level is given, when it is shown and
\* the adjustment has some travel; the fill widget is not allocated otherwise
NotAllocated == "not allocated"

FillFraction(r) ==
  IF r.priv.show_fill_level /\ ~RIsZero(AdjTravel(r))
  THEN RDiv(RSub(RCLAMP(r.priv.fill_level, r.adj.lower, AdjTop(r)),
                 r.adj.lower),
            AdjTravel(r))
  ELSE NotAllocated

\* the trough's allocation: the slider is placed for the current value, the
\* fill level and the highlight are sized by their fractions
gtk_range_allocate_trough(r) ==
  [r EXCEPT !.w.slider_alloc =
               gtk_range_compute_slider_position(r, r.adj.value),
            !.ev.allocated = [highlight |-> HighlightFraction(r),
                              fill |-> FillFraction(r)]]

-----------------------------------------------------------------------------
(* the setters: value, range, fill level and its restriction *)

\* gtk_adjustment_configure with the increments and the page size it has:
\* the bounds are set and the value is clamped into them
gtk_adjustment_configure(r, value, lower, upper) ==
  gtk_range_calc_slider(
    [r EXCEPT !.adj.lower = lower,
              !.adj.upper = upper,
              !.adj.value = AdjClamp([r.adj EXCEPT !.lower = lower,
                                                   !.upper = upper], value)])

gtk_range_set_value(r, value) == gtk_adjustment_set_value(r, FillCap(r, value))

gtk_range_set_range(r, min, max) ==
  IF ~RLe(min, max)
  THEN Critical(r, "min <= max")
  ELSE gtk_adjustment_configure(r, FillCap(r, r.adj.value), min, max)

gtk_range_set_restrict_to_fill_level(r, restrict_to_fill_level) ==
  IF restrict_to_fill_level # r.priv.restrict_to_fill_level
  THEN gtk_range_set_value(
         [r EXCEPT !.priv.restrict_to_fill_level = restrict_to_fill_level],
         r.adj.value)
  ELSE r

gtk_range_set_fill_level(r, fill_level) ==
  IF fill_level # r.priv.fill_level
  THEN IF r.priv.restrict_to_fill_level
       THEN gtk_range_set_value([r EXCEPT !.priv.fill_level = fill_level],
                                r.adj.value)
       ELSE [r EXCEPT !.priv.fill_level = fill_level]
  ELSE r

-----------------------------------------------------------------------------
(* the state machine *)

State == [priv |-> priv, adj |-> adjustment, w |-> widget, ev |-> ev, h |-> hist]

\* the history of the repeat timer after a callback that ends in r: the time
\* its sources have run for (advanced by the action that fires one) and the
\* change-value emissions made for it, by the call that created it and by its
\* timeout callbacks; both start over when the timer record is freed
Tally(r) ==
  IF r.priv.timer = NO_TIMER
  THEN [r.h EXCEPT !.ms = 0, !.steps = 0]
  ELSE IF priv.timer = NO_TIMER
  THEN [r.h EXCEPT !.ms = 0, !.steps = Len(r.ev.emits)]
  ELSE IF r.ev.name \in {"initial_timeout", "second_timeout"}
  THEN [r.h EXCEPT !.steps = @ + Len(r.ev.emits)]
  ELSE r.h

Commit(r) ==
  /\ priv' = r.priv
  /\ adjustment' = r.adj
  /\ widget' = r.w
  /\ ev' = r.ev
  /\ hist' = Tally(r)

\* what a change-value listener may return, and what an undefined conversion
\* may yield, in the state r
ListenerReturns(r) == IF r.w.has_listener THEN BOOLEAN ELSE {FALSE}

\* the initial slider position is unset (-1) when update_slider_position runs
\* with zoom off: it was unset before the callback, or update_autoscroll_mode
\* unsets it on its way out of an autoscroll mode
UndefinedChoices(r) ==
  IF /\ ~r.priv.zoom
     /\ \/ r.priv.slide_initial_slider_position = -1
        \/ r.priv.autoscroll_mode # GTK_SCROLL_NONE
  THEN UndefinedInts
  ELSE {0}

Buttons == {GDK_BUTTON_PRIMARY, GDK_BUTTON_MIDDLE, GDK_BUTTON_SECONDARY}
Sources == {"MOUSE", "TOUCHSCREEN"}
PressPositions == {0, 31}
DragPositions == {0, 16, 31}
CrossOffsets == {0}
Keyvals == {"Escape", "Shift_L"}
WheelDeltas == {<<0, 1>>}
MoveScrolls == {GTK_SCROLL_STEP_FORWARD}

\* gdk_event_triggers_context_menu: the secondary button does, the primary
\* button may (with a modifier, on some platforms), the others do not
MenuChoices(button, source) ==
  IF source = "TOUCHSCREEN" THEN {FALSE}
  ELSE IF button = GDK_BUTTON_SECONDARY THEN {TRUE}
  ELSE IF button = GDK_BUTTON_PRIMARY THEN BOOLEAN
  ELSE {FALSE}

Adjustments ==
  { [value |-> I(2), lower |-> I(0), upper |-> I(204),
     step_increment |-> I(20), page_increment |-> I(180),
     page_size |-> I(200)] }

Configs ==
  { [orientation |-> "HORIZONTAL", inverted |-> FALSE, flippable |-> FALSE,
     direction |-> "LTR", is_scale |-> FALSE, primary_warps |-> w,
     has_listener |-> l, round_digits |-> -1, marks |-> <<I(3)>>,
     restrict_to_fill_level |-> TRUE, fill_level |-> G_MAXDOUBLE,
     slider_size_fixed |-> FALSE, trough_length |-> TroughLength,
     min_slider_size |-> SliderMinSize, widens_bounds |-> FALSE,
     show_fill_level |-> FALSE] :
       w \in {FALSE}, l \in {TRUE} }

InitState(c, a) ==
  LET r0 == [priv |-> [mouse_location |-> NULL,
                       mouse_pos |-> G_MININT,
                       grab_location |-> NULL,
                       timer |-> NO_TIMER,
                       orientation |-> c.orientation,
                       fill_level |-> c.fill_level,
                       marks |-> c.marks,
                       round_digits |-> c.round_digits,
                       slide_initial_slider_position |-> 0,
                       slide_initial_coordinate_delta |-> 0,
                       flippable |-> c.flippable,
                       inverted |-> c.inverted,
                       slider_size_fixed |-> c.slider_size_fixed,
                       trough_click_forward |-> FALSE,
                       zoom |-> FALSE,
                       restrict_to_fill_level |-> c.restrict_to_fill_level,
                       show_fill_level |-> c.show_fill_level,
                       in_drag |-> FALSE,
                       autoscroll_mode |-> GTK_SCROLL_NONE,
                       autoscroll_id |-> 0],
             adj |-> a,
             w |-> [slider_alloc |-> [x |-> 0, length |-> c.min_slider_size],
                    trough_length |-> c.trough_length,
                    min_slider_size |-> c.min_slider_size,
                    widens_bounds |-> c.widens_bounds,
                    direction |-> c.direction,
                    is_scale |-> c.is_scale,
                    primary_warps |-> c.primary_warps,
                    has_listener |-> c.has_listener,
                    drag_active |-> FALSE,
                    drag_offset |-> 0,
                    sources |-> <<>>,
                    tick_callbacks |-> 0],
             ev |-> [name |-> "init"],
             h |-> [ms |-> 0, steps |-> 0, events |-> 0]]
  IN  [gtk_range_allocate_trough(Begin(r0, "init")) EXCEPT !.h.events = 0]

InitFrom(configs, adjustments) ==
  \E c \in configs, a \in adjustments :
    LET r == InitState(c, a)
    IN  /\ priv = r.priv
        /\ adjustment = r.adj
        /\ widget = r.w
        /\ ev = r.ev
        /\ hist = r.h

Init == InitFrom(Configs, Adjustments)

Pressed ==
  /\ hist.events < MaxEvents
  /\ \E button \in Buttons, pos \in PressPositions, shift \in BOOLEAN,
        source \in Sources :
       \E menu \in MenuChoices(button, source), h \in ListenerReturns(State) :
         Commit(gtk_range_multipress_gesture_pressed(
                  Begin([State EXCEPT !.w.drag_active = TRUE,
                                      !.w.drag_offset = 0], "pressed"),
                  button, pos, shift, source, menu, h))

Released ==
  /\ hist.events < MaxEvents
  /\ widget.drag_active
  /\ \E pos \in DragPositions :
       Commit(gtk_range_multipress_gesture_released(
                Begin([State EXCEPT !.w.drag_active = FALSE], "released"),
                pos))

DragUpdate ==
  /\ hist.events < MaxEvents
  /\ widget.drag_active
  /\ \E pos \in DragPositions, cross \in CrossOffsets,
        h \in ListenerReturns(State), u \in UndefinedChoices(State) :
       Commit(gtk_range_drag_gesture_update(
                Begin([State EXCEPT !.w.drag_offset = cross], "drag_update"),
                pos, h, u))

LongPress ==
  /\ hist.events < MaxEvents
  /\ widget.drag_active
  /\ \E pos \in PressPositions :
       Commit(gtk_range_long_press_gesture_pressed(
                Begin(State, "long_press"), pos))

KeyPress ==
  /\ hist.events < MaxEvents
  /\ \E keyval \in Keyvals, same_device \in BOOLEAN :
       Commit(gtk_range_key_press(
                Begin(State,
                      IF EscapeHandled(State, keyval, same_device)
                      THEN "key_escape"
                      ELSE IF ShiftHandled(State, keyval, same_device)
                      THEN "key_shift"
                      ELSE "key_other"),
                keyval, same_device))

\* unmapping resets the gestures
Unmap ==
  /\ hist.events < MaxEvents
  /\ Commit(gtk_range_unmap(
              Begin([State EXCEPT !.w.drag_active = FALSE, !.w.drag_offset = 0],
                    "unmap")))

InitialTimeout ==
  /\ hist.events < MaxEvents
  /\ \E i \in 1..Len(widget.sources) :
       /\ widget.sources[i].func = "initial_timeout"
       /\ Commit(initial_timeout(
                   Begin([State EXCEPT !.h.ms = @ + widget.sources[i].interval],
                         "initial_timeout")))

SecondTimeout ==
  /\ hist.events < MaxEvents
  /\ \E i \in 1..Len(widget.sources), h \in ListenerReturns(State) :
       /\ widget.sources[i].func = "second_timeout"
       /\ Commit(second_timeout(
                   Begin([State EXCEPT !.h.ms = @ + widget.sources[i].interval],
                         "second_timeout"),
                   h))

AutoscrollTick ==
  /\ hist.events < MaxEvents
  /\ widget.tick_callbacks > 0
  /\ \E h \in ListenerReturns(State) :
       Commit(autoscroll_cb(Begin(State, "autoscroll_cb"), h))

MoveSlider ==
  /\ hist.events < MaxEvents
  /\ \E scroll \in MoveScrolls, h \in ListenerReturns(State) :
       Commit(gtk_range_move_slider(BeginMove(State, scroll), scroll, h))

ScrollWheel ==
  /\ hist.events < MaxEvents
  /\ \E d \in WheelDeltas, h \in ListenerReturns(State) :
       Commit(gtk_range_scroll_controller_scroll(
                Begin(State, "scroll"), d[1], d[2], h))

\* the layout pass that follows a queued allocation
AllocateTrough ==
  /\ hist.events < MaxEvents
  /\ widget.slider_alloc # gtk_range_compute_slider_position(State, adjustment.value)
  /\ Commit(gtk_range_allocate_trough(Begin(State, "allocate")))

Next ==
  \/ Pressed
  \/ Released
  \/ DragUpdate
  \/ LongPress
  \/ KeyPress
  \/ Unmap
  \/ InitialTimeout
  \/ SecondTimeout
  \/ AutoscrollTick
  \/ MoveSlider
  \/ ScrollWheel
  \/ AllocateTrough

Spec == Init /\ [][Next]_vars

-----------------------------------------------------------------------------
(* the change-value funnel on its own: ranges that differ in their fill     *)
(* level, its restriction and their rounding, and values proposed to them   *)

FunnelAdjustments ==
  { [value |-> I(0), lower |-> I(-2), upper |-> I(10), step_increment |-> I(1),
     page_increment |-> I(2), page_size |-> I(0)] }

FunnelConfigs ==
  { [orientation |-> "HORIZONTAL", inverted |-> FALSE, flippable |-> FALSE,
     direction |-> "LTR", is_scale |-> TRUE, primary_warps |-> FALSE,
     has_listener |-> TRUE, round_digits |-> d, marks |-> <<>>,
     restrict_to_fill_level |-> t, fill_level |-> f,
     slider_size_fixed |-> FALSE, trough_length |-> TroughLength,
     min_slider_size |-> SliderMinSize, widens_bounds |-> b,
     show_fill_level |-> FALSE] :
       d \in {-1, 0, 2}, t \in BOOLEAN, f \in {Q(11, 2), G_MAXDOUBLE},
       b \in BOOLEAN }

Candidates == {Q(-3, 2), Q(201, 200), Q(5, 2), Q(27, 10), I(6), I(12)}

FunnelInit == InitFrom(FunnelConfigs, FunnelAdjustments)

\* the scroll types the emissions are made for
FunnelScrolls ==
  { GTK_SCROLL_JUMP, GTK_SCROLL_STEP_FORWARD, GTK_SCROLL_PAGE_BACKWARD,
    GTK_SCROLL_END }

\* the emissions a range is followed for
FunnelEvents == 2

\* change-value emitted on the range with a proposed value
ChangeValue ==
  /\ hist.events < FunnelEvents
  /\ \E scroll \in FunnelScrolls, value \in Candidates,
        h \in ListenerReturns(State) :
       Commit(emit_change_value(Begin(State, "change_value"),
                                scroll, value, h))

FunnelNext == ChangeValue

SpecFunnel == FunnelInit /\ [][FunnelNext]_vars

-----------------------------------------------------------------------------
(* the keyboard's scroll actions on their own: ranges of every orientation, *)
(* inversion and text direction, with marks in several orders               *)

ScrollAdjustments ==
  { [value |-> I(v), lower |-> I(0), upper |-> I(10), step_increment |-> I(4),
     page_increment |-> I(6), page_size |-> I(0)] : v \in {3, 9} }

ScrollMarks == {<<>>, <<I(5)>>, <<I(7)>>, <<I(5), I(7)>>, <<I(7), I(5)>>}

ScrollConfigs ==
  { [orientation |-> o, inverted |-> i, flippable |-> f,
     direction |-> d, is_scale |-> TRUE, primary_warps |-> FALSE,
     has_listener |-> TRUE, round_digits |-> -1, marks |-> m,
     restrict_to_fill_level |-> TRUE, fill_level |-> G_MAXDOUBLE,
     slider_size_fixed |-> FALSE, trough_length |-> TroughLength,
     min_slider_size |-> SliderMinSize, widens_bounds |-> FALSE,
     show_fill_level |-> FALSE] :
       o \in {"HORIZONTAL", "VERTICAL"}, i \in BOOLEAN, f \in BOOLEAN,
       d \in {"LTR", "RTL"}, m \in ScrollMarks }

ScrollInit == InitFrom(ScrollConfigs, ScrollAdjustments)

\* the actions a range is followed for
ScrollEvents == 2

\* move-slider emitted on the range, as a key binding does
KeyMoveSlider ==
  /\ hist.events < ScrollEvents
  /\ \E scroll \in GtkScrollType, h \in ListenerReturns(State) :
       Commit(gtk_range_move_slider(BeginMove(State, scroll), scroll, h))

ScrollNext == KeyMoveSlider

SpecScroll == ScrollInit /\ [][ScrollNext]_vars

-----------------------------------------------------------------------------
(* presses on their own: every button, with and without shift, from a       *)
(* pointer and from a touchscreen, under both settings of                   *)
(* gtk-primary-button-warps-slider                                          *)

PressConfigs ==
  { [orientation |-> "HORIZONTAL", inverted |-> FALSE, flippable |-> FALSE,
     direction |-> "LTR", is_scale |-> FALSE, primary_warps |-> w,
     has_listener |-> FALSE, round_digits |-> -1, marks |-> <<>>,
     restrict_to_fill_level |-> TRUE, fill_level |-> G_MAXDOUBLE,
     slider_size_fixed |-> FALSE, trough_length |-> TroughLength,
     min_slider_size |-> SliderMinSize, widens_bounds |-> FALSE,
     show_fill_level |-> FALSE] :
       w \in BOOLEAN }

PressInit == InitFrom(PressConfigs, Adjustments)

\* the callbacks a range is followed for
PressEvents == 3

\* the buttons of the presses: the three the handler names and one more
PressButtons ==
  {GDK_BUTTON_PRIMARY, GDK_BUTTON_MIDDLE, GDK_BUTTON_SECONDARY, 8}

\* the press handler, with the button, the modifier and the device of the
\* press kept in the callback's log
AnyPress ==
  /\ hist.events < PressEvents
  /\ \E button \in PressButtons, pos \in PressPositions, shift \in BOOLEAN,
        source \in Sources :
       \E menu \in MenuChoices(button, source), h \in ListenerReturns(State) :
         Commit(gtk_range_multipress_gesture_pressed(
                  [Begin([State EXCEPT !.w.drag_active = TRUE,
                                       !.w.drag_offset = 0], "pressed")
                     EXCEPT !.ev.press = [button |-> button,
                                          shift_pressed |-> shift,
                                          source |-> source]],
                  button, pos, shift, source, menu, h))

\* the release handler
AnyRelease ==
  /\ hist.events < PressEvents
  /\ widget.drag_active
  /\ \E pos \in PressPositions :
       Commit(gtk_range_multipress_gesture_released(
                Begin([State EXCEPT !.w.drag_active = FALSE], "released"),
                pos))

PressNext ==
  \/ AnyPress
  \/ AnyRelease

SpecPress == PressInit /\ [][PressNext]_vars

-----------------------------------------------------------------------------
(* the geometry on its own: troughs and sliders of several sizes, scales    *)
(* and scrollbars, inverted or not, with adjustments that have some travel  *)
(* and one that has none                                                    *)

GeometryAdjustments ==
  { [value |-> I(0), lower |-> I(0), upper |-> I(0), step_increment |-> I(1),
     page_increment |-> I(1), page_size |-> I(0)],
    [value |-> I(4), lower |-> I(0), upper |-> I(10), step_increment |-> I(1),
     page_increment |-> I(2), page_size |-> I(0)],
    [value |-> I(30), lower |-> I(0), upper |-> I(100),
     step_increment |-> I(1), page_increment |-> I(10),
     page_size |-> I(25)] }

GeometryConfigs ==
  { [orientation |-> "HORIZONTAL", inverted |-> i, flippable |-> FALSE,
     direction |-> "LTR", is_scale |-> s, primary_warps |-> FALSE,
     has_listener |-> FALSE, round_digits |-> -1, marks |-> <<>>,
     restrict_to_fill_level |-> TRUE, fill_level |-> I(6),
     slider_size_fixed |-> FALSE, trough_length |-> t,
     min_slider_size |-> m, widens_bounds |-> FALSE,
     show_fill_level |-> TRUE] :
       i \in BOOLEAN, s \in BOOLEAN, t \in {8, 32}, m \in {2, 8} }

GeometryInit == InitFrom(GeometryConfigs, GeometryAdjustments)

\* the callbacks and lookups a range is followed for
GeometryEvents == 2

\* the values looked up, as fractions of the travel above lower, and the
\* coordinates looked up
GeometryFractions == {I(0), Q(1, 3), Q(1, 2), Q(5, 7), I(1)}
GeometryCoords == {-3, 0, 5, 8, 31, 40}

\* the slider rectangle of a value, and the value of its start coordinate
PlaceSlider ==
  /\ hist.events < GeometryEvents
  /\ \E f \in GeometryFractions :
       LET r == Begin(State, "place_slider")
           value == RAdd(r.adj.lower, RMul(f, AdjTravel(r)))
           rect == gtk_range_compute_slider_position(r, value)
       IN  Commit([r EXCEPT !.ev.probe =
                     [kind |-> "place", value |-> value, rect |-> rect,
                      back |-> coord_to_value(r, I(rect.x))]])

\* the value of a coordinate
LocateCoord ==
  /\ hist.events < GeometryEvents
  /\ \E c \in GeometryCoords :
       LET r == Begin(State, "locate_coord")
       IN  Commit([r EXCEPT !.ev.probe =
                     [kind |-> "locate", coord |-> c,
                      value |-> coord_to_value(r, I(c))]])

\* the value set on the adjustment, and the layout pass it queues
SetAndAllocate ==
  /\ hist.events < GeometryEvents
  /\ \E f \in GeometryFractions :
       LET r == Begin(State, "allocate")
       IN  Commit(gtk_range_allocate_trough(
                    gtk_adjustment_set_value(
                      r, RAdd(r.adj.lower, RMul(f, AdjTravel(r))))))

GeometryNext ==
  \/ PlaceSlider
  \/ LocateCoord
  \/ SetAndAllocate

SpecGeometry == GeometryInit /\ [][GeometryNext]_vars

-----------------------------------------------------------------------------
(* gestures on their own: a trough of 64 pixels under a slider of 12, so    *)
(* that the pointer has somewhere to go; ranges of every orientation,       *)
(* inversion and text direction, and adjustments whose travel is longer     *)
(* than the trough, shorter than it, and negative                           *)

GestureTrough == 64

GestureAdjustments ==
  { [value |-> I(40), lower |-> I(0), upper |-> I(100),
     step_increment |-> I(5), page_increment |-> I(20), page_size |-> I(20)],
    [value |-> I(0), lower |-> I(0), upper |-> I(10),
     step_increment |-> I(1), page_increment |-> I(2), page_size |-> I(20)] }

ShortAdjustments ==
  { [value |-> I(4), lower |-> I(0), upper |-> I(10),
     step_increment |-> I(1), page_increment |-> I(2), page_size |-> I(2)] }

GestureConfig(o, i, f, d) ==
  [orientation |-> o, inverted |-> i, flippable |-> f,
   direction |-> d, is_scale |-> FALSE, primary_warps |-> TRUE,
   has_listener |-> FALSE, round_digits |-> -1, marks |-> <<>>,
   restrict_to_fill_level |-> TRUE, fill_level |-> G_MAXDOUBLE,
   slider_size_fixed |-> FALSE, trough_length |-> GestureTrough,
   min_slider_size |-> SliderMinSize, widens_bounds |-> FALSE,
   show_fill_level |-> FALSE]

\* every orientation, inversion and text direction over the short adjustment;
\* the plain and the inverted range over the other two; a scale with a mark
\* at 4.3, next to its value of 4
GestureInit ==
  \/ InitFrom({ GestureConfig(o, i, f, d) :
                  o \in {"HORIZONTAL", "VERTICAL"}, i \in BOOLEAN,
                  f \in BOOLEAN, d \in {"LTR", "RTL"} },
              ShortAdjustments)
  \/ InitFrom({ GestureConfig("HORIZONTAL", i, FALSE, "LTR") : i \in BOOLEAN },
              GestureAdjustments)
  \/ InitFrom({ [GestureConfig("HORIZONTAL", FALSE, FALSE, "LTR")
                   EXCEPT !.is_scale = TRUE, !.marks = <<Q(43, 10)>>] },
              ShortAdjustments)

\* the callbacks a range is followed for
GestureEvents == 5

\* where the presses and the motions put the pointer along the range's axis:
\* on the trough below the slider, on the slider, on the trough above it; near
\* the low edge, on the last pixel that is not near it, in between, on the
\* first pixel near the high edge
GesturePresses == {5, 30, 39, 60}
GestureMotions == {3, 15, 34, 50}

\* a press of the primary or the secondary button of a pointer
GesturePress ==
  /\ hist.events < GestureEvents
  /\ ~widget.drag_active
  /\ \E button \in {GDK_BUTTON_PRIMARY, GDK_BUTTON_SECONDARY},
        pos \in GesturePresses, shift \in BOOLEAN :
       Commit(gtk_range_multipress_gesture_pressed(
                [Begin([State EXCEPT !.w.drag_active = TRUE,
                                     !.w.drag_offset = 0], "pressed")
                   EXCEPT !.ev.press = [button |-> button,
                                        shift_pressed |-> shift,
                                        source |-> "MOUSE"]],
                button, pos, shift, "MOUSE",
                button = GDK_BUTTON_SECONDARY, FALSE))

GestureRelease ==
  /\ hist.events < GestureEvents
  /\ widget.drag_active
  /\ Commit(gtk_range_multipress_gesture_released(
              Begin([State EXCEPT !.w.drag_active = FALSE], "released"),
              priv.mouse_pos))

\* a drag update, while a button is held
GestureMotion ==
  /\ hist.events < GestureEvents
  /\ widget.drag_active
  /\ \E pos \in GestureMotions, u \in UndefinedChoices(State) :
       Commit(gtk_range_drag_gesture_update(
                Begin(State, "drag_update"), pos, FALSE, u))

GestureShift ==
  /\ hist.events < GestureEvents
  /\ Commit(gtk_range_key_press(
              Begin(State, IF ShiftHandled(State, "Shift_L", TRUE)
                           THEN "key_shift" ELSE "key_other"),
              "Shift_L", TRUE))

GestureInitialTimeout ==
  /\ hist.events < GestureEvents
  /\ \E i \in 1..Len(widget.sources) :
       /\ widget.sources[i].func = "initial_timeout"
       /\ Commit(initial_timeout(
                   Begin([State EXCEPT !.h.ms = @ + widget.sources[i].interval],
                         "initial_timeout")))

GestureSecondTimeout ==
  /\ hist.events < GestureEvents
  /\ \E i \in 1..Len(widget.sources) :
       /\ widget.sources[i].func = "second_timeout"
       /\ Commit(second_timeout(
                   Begin([State EXCEPT !.h.ms = @ + widget.sources[i].interval],
                         "second_timeout"),
                   FALSE))

GestureTick ==
  /\ hist.events < GestureEvents
  /\ widget.tick_callbacks > 0
  /\ Commit(autoscroll_cb(Begin(State, "autoscroll_cb"), FALSE))

GestureAllocate ==
  /\ hist.events < GestureEvents
  /\ widget.slider_alloc # gtk_range_compute_slider_position(State, adjustment.value)
  /\ Commit(gtk_range_allocate_trough(Begin(State, "allocate")))

GestureNext ==
  \/ GesturePress
  \/ GestureRelease
  \/ GestureMotion
  \/ GestureShift
  \/ GestureInitialTimeout
  \/ GestureSecondTimeout
  \/ GestureTick
  \/ GestureAllocate

SpecGesture == GestureInit /\ [][GestureNext]_vars

-----------------------------------------------------------------------------
(* drags over marks: scales whose marks lie next to the value, in both      *)
(* orders, next to where the pointer goes, and on the value itself          *)

SnapMarkLists ==
  { <<Q(43, 10), Q(19, 5)>>, <<Q(19, 5), Q(43, 10)>>, <<I(7), Q(43, 10)>>,
    <<I(4)>>, <<I(4), Q(43, 10), Q(19, 5)>> }

SnapInit ==
  InitFrom({ [GestureConfig("HORIZONTAL", i, FALSE, "LTR")
                EXCEPT !.is_scale = TRUE, !.marks = m] :
               i \in BOOLEAN, m \in SnapMarkLists },
           ShortAdjustments)

SpecSnap == SnapInit /\ [][GestureNext]_vars

-----------------------------------------------------------------------------
(* autoscroll from a secondary-button press on the trough, with the pointer *)
(* moving across the range's axis while the button is held                  *)

AutoscrollEvents == 4

\* the pointer's offsets across the axis: none, the threshold, half way up
\* the first 100 pixels past it, 100 and 200 pixels past it, beyond, and one
\* on the other side
AutoscrollOffsets == {0, 20, 70, 120, 220, 300, -170}

AutoscrollInit ==
  InitFrom({ GestureConfig(o, FALSE, FALSE, "LTR") :
               o \in {"HORIZONTAL", "VERTICAL"} },
           GestureAdjustments)

\* a press of the secondary button on the trough, below or above the slider
AutoscrollPress ==
  /\ hist.events < AutoscrollEvents
  /\ ~widget.drag_active
  /\ \E pos \in GesturePresses :
       Commit(gtk_range_multipress_gesture_pressed(
                [Begin([State EXCEPT !.w.drag_active = TRUE,
                                     !.w.drag_offset = 0], "pressed")
                   EXCEPT !.ev.press = [button |-> GDK_BUTTON_SECONDARY,
                                        shift_pressed |-> FALSE,
                                        source |-> "MOUSE"]],
                GDK_BUTTON_SECONDARY, pos, FALSE, "MOUSE", TRUE, FALSE))

\* a drag update that takes the pointer across the axis
AutoscrollMotion ==
  /\ hist.events < AutoscrollEvents
  /\ widget.drag_active
  /\ \E cross \in AutoscrollOffsets, u \in UndefinedChoices(State) :
       Commit(gtk_range_drag_gesture_update(
                Begin([State EXCEPT !.w.drag_offset = cross], "drag_update"),
                priv.mouse_pos, FALSE, u))

AutoscrollRelease ==
  /\ hist.events < AutoscrollEvents
  /\ widget.drag_active
  /\ Commit(gtk_range_multipress_gesture_released(
              Begin([State EXCEPT !.w.drag_active = FALSE], "released"),
              priv.mouse_pos))

AutoscrollFrame ==
  /\ hist.events < AutoscrollEvents
  /\ widget.tick_callbacks > 0
  /\ Commit(autoscroll_cb(Begin(State, "autoscroll_cb"), FALSE))

AutoscrollNext ==
  \/ AutoscrollPress
  \/ AutoscrollMotion
  \/ AutoscrollRelease
  \/ AutoscrollFrame

SpecAutoscroll == AutoscrollInit /\ [][AutoscrollNext]_vars

-----------------------------------------------------------------------------
(* the scroll wheel on its own: ranges of every orientation, inversion and  *)
(* text direction, and deltas along either axis or both                     *)

WheelEvents == 2

WheelSteps == {-1, 0, 1, 2}

WheelInit ==
  InitFrom({ GestureConfig(o, i, f, d) :
               o \in {"HORIZONTAL", "VERTICAL"}, i \in BOOLEAN,
               f \in BOOLEAN, d \in {"LTR", "RTL"} },
           ShortAdjustments)

\* a scroll event; the log names its deltas
WheelScroll ==
  /\ hist.events < WheelEvents
  /\ \E dx \in WheelSteps, dy \in WheelSteps :
       Commit(gtk_range_scroll_controller_scroll(
                [Begin(State, "scroll")
                   EXCEPT !.ev.probe = [kind |-> "scroll", dx |-> dx, dy |-> dy]],
                dx, dy, FALSE))

WheelNext == WheelScroll

SpecWheel == WheelInit /\ [][WheelNext]_vars

-----------------------------------------------------------------------------
(* the change-value funnel over bounds that are not round numbers, and over *)
(* a page larger than the range                                             *)

BoundsAdjustments ==
  { [value |-> I(0), lower |-> I(0), upper |-> Q(5, 2), step_increment |-> I(1),
     page_increment |-> I(2), page_size |-> I(0)],
    [value |-> I(0), lower |-> I(0), upper |-> I(10), step_increment |-> I(1),
     page_increment |-> I(2), page_size |-> I(20)] }

BoundsInit == InitFrom(FunnelConfigs, BoundsAdjustments)

SpecBounds == BoundsInit /\ [][FunnelNext]_vars

-----------------------------------------------------------------------------
(* the fill level on its own: a range as gtk_range_init leaves it (the fill *)
(* level at G_MAXDOUBLE and restricting) whose value, bounds, fill level    *)
(* and restriction an application sets, and on which change-value is        *)
(* emitted                                                                  *)

FillEvents == 3

FillAdjustments ==
  { [value |-> I(4), lower |-> I(0), upper |-> I(10), step_increment |-> I(1),
     page_increment |-> I(2), page_size |-> I(0)] }

FillInit ==
  InitFrom({ [GestureConfig("HORIZONTAL", FALSE, FALSE, "LTR")
                EXCEPT !.is_scale = TRUE] },
           FillAdjustments)

FillValues == {I(1), I(3), I(8), I(12)}
FillRanges == {<<I(0), I(10)>>, <<I(5), I(10)>>, <<I(0), I(3)>>}
FillLevels == {I(2), I(6), G_MAXDOUBLE}

SetValue ==
  /\ hist.events < FillEvents
  /\ \E value \in FillValues :
       Commit(gtk_range_set_value(Begin(State, "set_value"), value))

SetRange ==
  /\ hist.events < FillEvents
  /\ \E b \in FillRanges :
       Commit(gtk_range_set_range(Begin(State, "set_range"), b[1], b[2]))

SetFillLevel ==
  /\ hist.events < FillEvents
  /\ \E fill_level \in FillLevels :
       Commit(gtk_range_set_fill_level(Begin(State, "set_fill_level"),
                                       fill_level))

SetRestrictToFillLevel ==
  /\ hist.events < FillEvents
  /\ \E restrict \in BOOLEAN :
       Commit(gtk_range_set_restrict_to_fill_level(
                Begin(State, "set_restrict_to_fill_level"), restrict))

\* change-value emitted with nothing connected but the default handler
FillChangeValue ==
  /\ hist.events < FillEvents
  /\ \E value \in FillValues :
       Commit(emit_change_value(Begin(State, "change_value"),
                                GTK_SCROLL_JUMP, value, FALSE))

FillNext ==
  \/ SetValue
  \/ SetRange
  \/ SetFillLevel
  \/ SetRestrictToFillLevel
  \/ FillChangeValue

SpecFill == FillInit /\ [][FillNext]_vars

-----------------------------------------------------------------------------
(* a paging hold on the trough that lasts: the press, the timeouts of the   *)
(* repeat timer, which the main loop dispatches for as long as their source *)
(* is pending, the release and the layout pass; ranges with and without     *)
(* marks, rounding and a fill level below the top                           *)

\* a scrollbar; a scale with two marks and a fill level below the top; an
\* inverted scale that rounds to integers; a scale with a mark at 4.3 that
\* rounds to integers
HoldConfigs ==
  { GestureConfig("HORIZONTAL", FALSE, FALSE, "LTR"),
    [GestureConfig("HORIZONTAL", FALSE, FALSE, "LTR")
       EXCEPT !.is_scale = TRUE, !.marks = <<I(7), I(5)>>, !.fill_level = I(6)],
    [GestureConfig("HORIZONTAL", TRUE, FALSE, "LTR")
       EXCEPT !.is_scale = TRUE, !.round_digits = 0],
    [GestureConfig("HORIZONTAL", FALSE, FALSE, "LTR")
       EXCEPT !.is_scale = TRUE, !.marks = <<Q(43, 10)>>, !.round_digits = 0] }

HoldInit == InitFrom(HoldConfigs, ShortAdjustments)

\* where the presses land: below and above the slider
HoldPresses == {5, 60}

\* the history of the timer is not followed here, only the parity of the
\* timeouts that were dispatched, which tells the run of a callback that
\* leaves the range as it was from no step at all
HoldCommit(r) ==
  /\ priv' = r.priv
  /\ adjustment' = r.adj
  /\ widget' = r.w
  /\ ev' = r.ev
  /\ UNCHANGED hist

TimeoutDispatched == hist' = [hist EXCEPT !.events = 1 - @]

HoldDispatch(r) ==
  /\ priv' = r.priv
  /\ adjustment' = r.adj
  /\ widget' = r.w
  /\ ev' = r.ev
  /\ TimeoutDispatched

\* a primary-button press with Shift held, which pages when it is on the
\* trough of a range whose primary button warps
HoldPress ==
  /\ ~widget.drag_active
  /\ \E pos \in HoldPresses :
       HoldCommit(gtk_range_multipress_gesture_pressed(
                    [Begin([State EXCEPT !.w.drag_active = TRUE,
                                         !.w.drag_offset = 0], "pressed")
                       EXCEPT !.ev.press = [button |-> GDK_BUTTON_PRIMARY,
                                            shift_pressed |-> TRUE,
                                            source |-> "MOUSE"]],
                    GDK_BUTTON_PRIMARY, pos, TRUE, "MOUSE", FALSE, FALSE))

HoldRelease ==
  /\ widget.drag_active
  /\ HoldCommit(gtk_range_multipress_gesture_released(
                  Begin([State EXCEPT !.w.drag_active = FALSE], "released"),
                  priv.mouse_pos))

\* a source of the repeat timer is pending
Pending(func) ==
  \E i \in 1..Len(widget.sources) : widget.sources[i].func = func

HoldInitialTimeout ==
  /\ Pending("initial_timeout")
  /\ HoldDispatch(initial_timeout(Begin(State, "initial_timeout")))

HoldSecondTimeout ==
  /\ Pending("second_timeout")
  /\ HoldDispatch(second_timeout(Begin(State, "second_timeout"), FALSE))

HoldAllocate ==
  /\ widget.slider_alloc # gtk_range_compute_slider_position(State, adjustment.value)
  /\ HoldCommit(gtk_range_allocate_trough(Begin(State, "allocate")))

HoldNext ==
  \/ HoldPress
  \/ HoldRelease
  \/ HoldInitialTimeout
  \/ HoldSecondTimeout
  \/ HoldAllocate

\* the main loop dispatches a timeout for as long as its source is pending.
\* The steps that flip the parity while a source is pending are exactly those
\* of its callback, which is enabled whenever the source is pending, so weak
\* fairness of the flip is weak fairness of the callback
InitialTimeoutDue == Pending("initial_timeout") /\ TimeoutDispatched

SecondTimeoutDue == Pending("second_timeout") /\ TimeoutDispatched

SpecHold ==
  /\ HoldInit
  /\ [][HoldNext]_vars
  /\ WF_hist(InitialTimeoutDue)
  /\ WF_hist(SecondTimeoutDue)

-----------------------------------------------------------------------------
(* autoscroll started and stopped from outside the gestures, with any     *)
(* scroll type, next to the gestures that start and stop it themselves     *)

StartAutoscroll ==
  /\ hist.events < AutoscrollEvents
  /\ \E scroll_type \in GtkScrollType :
       Commit(gtk_range_start_autoscroll(Begin(State, "start_autoscroll"),
                                         scroll_type))

StopAutoscroll ==
  /\ hist.events < AutoscrollEvents
  /\ Commit(gtk_range_stop_autoscroll(Begin(State, "stop_autoscroll")))

StartNext ==
  \/ AutoscrollNext
  \/ StartAutoscroll
  \/ StopAutoscroll

SpecStart == AutoscrollInit /\ [][StartNext]_vars

-----------------------------------------------------------------------------
(* the claims *)

StopNames == {"released", "key_escape", "unmap"}
TimerNames == {"initial_timeout", "second_timeout", "autoscroll_cb"}

Neutral ==
  /\ priv.grab_location = NULL
  /\ priv.timer = NO_TIMER
  /\ widget.sources = <<>>
  /\ priv.autoscroll_id = 0
  /\ widget.tick_callbacks = 0
  /\ priv.autoscroll_mode = GTK_SCROLL_NONE

\* C1: a release, a handled Escape and an unmap leave the widget neutral (no
\* grab, no repeat timer and no pending source, no tick callback, autoscroll
\* mode none), and a neutral widget stays neutral, with no timeout or tick
\* callback run, through every callback that is not a press
C1_NeutralAfterStop ==
  [][/\ ev'.name \in StopNames => Neutral'
     /\ (Neutral /\ ev'.name # "pressed") =>
          (Neutral' /\ ev'.name \notin TimerNames)]_vars

\* a handled Escape, which found a grab held, has ended in the neutral state
C1_Witness == ev.name = "key_escape" /\ Neutral

\* the steps a repeat timer has made when its sources have run for ms, the
\* initial timeout making none
StepsAfter(ms) ==
  1 + (IF ms <= TIMEOUT_INITIAL THEN 0
       ELSE (ms - TIMEOUT_INITIAL) \div TIMEOUT_REPEAT)

\* C2 (amended): the press that starts the repeat timer makes one page step;
\* the initial timeout, 500 ms later, makes none and only arms the repeating
\* source; the steps that follow come every 250 ms from 750 ms on; a release
\* leaves no timer and no pending source
C2_StepsOfHeldPress ==
  /\ priv.timer # NO_TIMER =>
       /\ hist.steps = StepsAfter(hist.ms)
       /\ hist.ms = 0 \/ (hist.ms >= TIMEOUT_INITIAL
                          /\ (hist.ms - TIMEOUT_INITIAL) % TIMEOUT_REPEAT = 0)
  /\ ev.name = "released" => (priv.timer = NO_TIMER /\ widget.sources = <<>>)

\* C2 as stated: one more page step when the 500 ms initial timeout expires
C2_StepAtInitialTimeout ==
  priv.timer # NO_TIMER =>
    hist.steps = 1 + (IF hist.ms < TIMEOUT_INITIAL THEN 0
                      ELSE 1 + (hist.ms - TIMEOUT_INITIAL) \div TIMEOUT_REPEAT)

\* a held paging press one second old: the third step has just been made
C2_Witness ==
  /\ priv.timer # NO_TIMER
  /\ ev.name = "second_timeout"
  /\ hist.ms = 1000
  /\ hist.steps = 3

SliderGrab == priv.grab_location = slider_widget
PagingHold == priv.timer # NO_TIMER
TroughAutoscroll ==
  /\ priv.autoscroll_id # 0
  /\ priv.autoscroll_mode \in {GTK_SCROLL_START, GTK_SCROLL_END}

\* C3: at most one of a slider grab, a paging hold with its repeat timer and a
\* trough START/END autoscroll is active
C3_OneInteraction ==
  /\ ~(SliderGrab /\ PagingHold)
  /\ ~(SliderGrab /\ TroughAutoscroll)
  /\ ~(PagingHold /\ TroughAutoscroll)

TimerHasOneSource ==
  IF priv.timer = NO_TIMER
  THEN widget.sources = <<>>
  ELSE /\ Len(widget.sources) = 1
       /\ widget.sources[1].func = priv.timer.timeout_id

RejectedAdd(e) ==
  \E i \in 1..Len(e.critical) : e.critical[i] = "priv->timer == NULL"

\* C4: the timer record, when there is one, has exactly one pending timeout
\* source and there is no source without it; a timer that exists keeps its
\* direction until it is removed; and a callback whose add-step-timer call is
\* rejected finds a timer and leaves it, its source and the value as they were
C4_OneTimer ==
  /\ []TimerHasOneSource
  /\ [][/\ (priv.timer # NO_TIMER /\ priv'.timer # NO_TIMER) =>
             priv'.timer.step = priv.timer.step
        /\ RejectedAdd(ev') =>
             /\ priv.timer # NO_TIMER
             /\ priv'.timer = priv.timer
             /\ widget'.sources = widget.sources
             /\ adjustment'.value = adjustment.value
             /\ ev'.emits = <<>>]_vars

\* a paging press has arrived while a timer existed and was rejected
C4_Witness ==
  /\ ev.name = "pressed"
  /\ RejectedAdd(ev)
  /\ priv.timer # NO_TIMER

\* C5: zoom is off after every release, handled Escape and unmap
C5_ZoomOffAfterStop == ev.name \in StopNames => ~priv.zoom

\* C6: in_drag is off after every release, handled Escape and unmap
C6_InDragOffAfterStop == ev.name \in StopNames => ~priv.in_drag

\* C7: with restrict_to_fill_level set no value handed to the adjustment
\* exceeds MAX (lower, fill_level)
C7_FillLevelCaps ==
  priv.restrict_to_fill_level =>
    \A i \in 1..Len(ev.commits) :
      RLe(ev.commits[i].handed, RMAX(adjustment.lower, priv.fill_level))

\* the proposed value after the fill-level cap and the clamp to the bounds
Bounded(value) ==
  RCLAMP(IF priv.restrict_to_fill_level
         THEN RMIN(value, RMAX(adjustment.lower, priv.fill_level))
         ELSE value,
         adjustment.lower, RSub(adjustment.upper, adjustment.page_size))

\* floor (v * power + 0.5) / power in exact arithmetic
HalfUp(v, power) == RDiv(I(RFloor(RAdd(RMul(v, power), Q(1, 2)))), power)

C9_DirectOrAnimated ==
  \A i \in 1..Len(ev.commits) :
    (ev.commits[i].how = "set_value") <=>
      (priv.in_drag \/ priv.autoscroll_id # 0)

\* a tick callback, outside a drag, has had its value set directly
C9_Witness ==
  /\ ev.name = "autoscroll_cb"
  /\ ~priv.in_drag
  /\ ev.commits # <<>>
  /\ ev.commits[1].how = "set_value"

\* C10: an emission a listener answers TRUE runs no default handler (no
\* adjust-bounds, nothing handed to the adjustment, the value as before), and
\* an emission no listener answers TRUE runs it exactly once
C10_ListenerVeto ==
  /\ Len(ev.emits) <= 1
  /\ ev.emits = <<>> => (ev.commits = <<>> /\ ev.adjust_bounds = <<>>)
  /\ ev.emits # <<>> =>
       IF ev.emits[1].listener
       THEN /\ ev.commits = <<>>
            /\ ev.adjust_bounds = <<>>
            /\ adjustment.value = ev.emits[1].before
       ELSE /\ Len(ev.commits) = 1
            /\ ev.adjust_bounds = <<ev.emits[1].value>>
            /\ ev.commits[1].value = ev.emits[1].value

\* a listener has answered TRUE to the emission of a drag update
C10_Witness ==
  /\ ev.name = "drag_update"
  /\ ev.emits # <<>>
  /\ ev.emits[1].listener

\* C11: the class handler returns FALSE for every scroll type and every
\* proposed value, whether or not the value handed to the adjustment is the
\* proposed one
C11_ReturnsFalse ==
  \A i \in 1..Len(ev.commits) : ev.commits[i].ret = FALSE

\* a step's value has been altered on its way to the adjustment, and the
\* handler has returned FALSE
C11_Witness ==
  /\ ev.commits # <<>>
  /\ ev.commits[1].scroll = GTK_SCROLL_STEP_FORWARD
  /\ ev.commits[1].handed # ev.commits[1].value
  /\ ev.commits[1].ret = FALSE

\* the proposed value after the fill-level cap, under the bounds the
\* adjust-bounds handlers have left, and then rounded
CappedAfter(value) ==
  IF priv'.restrict_to_fill_level
  THEN RMIN(value, RMAX(adjustment'.lower, priv'.fill_level))
  ELSE value

RoundedAfter(v) ==
  IF priv'.round_digits >= 0 THEN RoundDigits(v, priv'.round_digits) ELSE v

\* C12: adjust-bounds carries the value as it was proposed, and it is emitted
\* before the bounds are read: when a handler of it widens the bounds for the
\* value, the value handed to the adjustment is the proposed one, capped by
\* the fill level and rounded only, whatever the bounds were before
C12_BoundsAdjustedFirst ==
  [][\A i \in 1..Len(ev'.commits) :
       /\ ev'.adjust_bounds[i] = ev'.commits[i].value
       /\ widget.widens_bounds =>
            ev'.commits[i].handed =
              RoundedAfter(CappedAfter(ev'.commits[i].value))]_vars

\* 12, above the upper bound of 10, has been proposed to a range whose
\* adjust-bounds handler widens the bounds, and has been handed on as 12
C12_Witness ==
  /\ widget.widens_bounds
  /\ ev.commits # <<>>
  /\ ev.commits[1].value = I(12)
  /\ ev.commits[1].handed = I(12)
  /\ adjustment.upper = I(12)

\* C13: move-slider rings the error bell exactly when the adjustment's value
\* after the action is its value before it, whatever the scroll type
C13_BellWhenUnchanged ==
  [][ev'.name = "move_slider" =>
       (ev'.bell <=> adjustment'.value = adjustment.value)]_vars

\* a listener has consumed the emission of a move-slider action, the value is
\* as it was, and the bell has rung
C13_Witness ==
  /\ ev.name = "move_slider"
  /\ ev.emits # <<>>
  /\ ev.emits[1].listener
  /\ ev.bell

StepTypes == {GTK_SCROLL_STEP_BACKWARD, GTK_SCROLL_STEP_FORWARD}
PageTypes == {GTK_SCROLL_PAGE_BACKWARD, GTK_SCROLL_PAGE_FORWARD}
ForwardTypes == {GTK_SCROLL_STEP_FORWARD, GTK_SCROLL_PAGE_FORWARD}

\* the raw target of the step or page emission e: the old value plus or minus
\* the increment
RawTarget(e) ==
  LET inc == IF e.scroll \in StepTypes THEN adjustment.step_increment
                                       ELSE adjustment.page_increment
  IN  IF e.scroll \in ForwardTypes THEN RAdd(e.before, inc)
                                   ELSE RSub(e.before, inc)

\* the marks strictly between a and b
MarksBetween(a, b) ==
  { i \in 1..Len(priv.marks) :
      \/ (RLt(a, priv.marks[i]) /\ RLt(priv.marks[i], b))
      \/ (RGt(a, priv.marks[i]) /\ RGt(priv.marks[i], b)) }

\* C14: a step or page from o with the raw target n proposes a mark that lies
\* strictly between o and n when there is one, and n when there is none, so
\* that a mark at o or at n changes nothing
C14_MarkPassThrough ==
  \A k \in 1..Len(ev.emits) :
    LET e == ev.emits[k]
    IN  (ev.name = "move_slider" /\ e.scroll \in StepTypes \cup PageTypes) =>
          IF MarksBetween(e.before, RawTarget(e)) # {}
          THEN \E i \in MarksBetween(e.before, RawTarget(e)) :
                 e.value = priv.marks[i]
          ELSE e.value = RawTarget(e)

\* marks [5], old value 3, step increment 4: step-forward has proposed 5
C14_Witness ==
  /\ ev.name = "move_slider"
  /\ priv.marks = <<I(5)>>
  /\ ev.emits # <<>>
  /\ ev.emits[1].scroll = GTK_SCROLL_STEP_FORWARD
  /\ ev.emits[1].before = I(3)
  /\ ev.emits[1].value = I(5)

\* C15: no mark lies strictly between the old value and the value a step or
\* page proposes
C15_NoMarkPassedOver ==
  \A k \in 1..Len(ev.emits) :
    LET e == ev.emits[k]
    IN  (ev.name = "move_slider" /\ e.scroll \in StepTypes \cup PageTypes) =>
          MarksBetween(e.before, e.value) = {}

\* inverted XOR (flippable AND the direction is RTL)
InvertedXorFlipped ==
  priv.inverted # (priv.flippable /\ widget.direction = "RTL")

\* C16: the effective inversion is inverted for a vertical range and
\* inverted XOR (flippable AND RTL) for a horizontal one, which is true in
\* the horizontal cases inverted and not flippable, inverted and flippable
\* and LTR, not inverted and flippable and RTL, and in no other
C16_EffectiveInversion ==
  /\ should_invert(State) =
       IF priv.orientation = "VERTICAL" THEN priv.inverted
                                        ELSE InvertedXorFlipped
  /\ priv.orientation = "HORIZONTAL" =>
       (should_invert(State) <=>
          \/ (priv.inverted /\ ~priv.flippable)
          \/ (priv.inverted /\ priv.flippable /\ widget.direction = "LTR")
          \/ (~priv.inverted /\ priv.flippable /\ widget.direction = "RTL"))

\* a horizontal range, not inverted, flippable, in RTL, has stepped forward
\* for a step to the left
C16_Witness ==
  /\ priv.orientation = "HORIZONTAL"
  /\ ~priv.inverted /\ priv.flippable /\ widget.direction = "RTL"
  /\ ev.request = GTK_SCROLL_STEP_LEFT
  /\ ev.emits # <<>>
  /\ ev.emits[1].scroll = GTK_SCROLL_STEP_FORWARD

\* the range's effective inversion, by orientation
EffectiveInversion ==
  IF priv.orientation = "VERTICAL" THEN priv.inverted ELSE InvertedXorFlipped

\* the action a requested scroll type stands for
ActionFor(request) ==
  CASE request \in {GTK_SCROLL_STEP_LEFT, GTK_SCROLL_STEP_UP} ->
         IF EffectiveInversion THEN GTK_SCROLL_STEP_FORWARD
                               ELSE GTK_SCROLL_STEP_BACKWARD
    [] request \in {GTK_SCROLL_STEP_RIGHT, GTK_SCROLL_STEP_DOWN} ->
         IF EffectiveInversion THEN GTK_SCROLL_STEP_BACKWARD
                               ELSE GTK_SCROLL_STEP_FORWARD
    [] request \in {GTK_SCROLL_PAGE_LEFT, GTK_SCROLL_PAGE_UP} ->
         IF EffectiveInversion THEN GTK_SCROLL_PAGE_FORWARD
                               ELSE GTK_SCROLL_PAGE_BACKWARD
    [] request \in {GTK_SCROLL_PAGE_RIGHT, GTK_SCROLL_PAGE_DOWN} ->
         IF EffectiveInversion THEN GTK_SCROLL_PAGE_BACKWARD
                               ELSE GTK_SCROLL_PAGE_FORWARD
    [] OTHER -> request

\* C17: left and up are the backward action, right and down the forward one,
\* and the other way round under effective inversion; the explicit forward
\* and backward types, START and END are taken as they are, START proposing
\* lower and END upper - page_size; NONE and JUMP emit nothing
C17_DirectionalRemap ==
  ev.name = "move_slider" =>
    IF ev.request \in {GTK_SCROLL_NONE, GTK_SCROLL_JUMP}
    THEN ev.emits = <<>>
    ELSE /\ Len(ev.emits) = 1
         /\ ev.emits[1].scroll = ActionFor(ev.request)
         /\ ev.request = GTK_SCROLL_START => ev.emits[1].value = adjustment.lower
         /\ ev.request = GTK_SCROLL_END =>
              ev.emits[1].value = RSub(adjustment.upper, adjustment.page_size)
         /\ ev.emits[1].scroll \in StepTypes \cup PageTypes =>
              IF ev.emits[1].scroll \in ForwardTypes
              THEN RGt(ev.emits[1].value, ev.emits[1].before)
              ELSE RLt(ev.emits[1].value, ev.emits[1].before)

\* an inverted vertical range has paged backward for page-down
C17_Witness ==
  /\ priv.orientation = "VERTICAL"
  /\ priv.inverted
  /\ ev.request = GTK_SCROLL_PAGE_DOWN
  /\ ev.emits # <<>>
  /\ ev.emits[1].scroll = GTK_SCROLL_PAGE_BACKWARD
  /\ RLt(ev.emits[1].value, ev.emits[1].before)

\* what a press has started, read from the state it leaves
Selected ==
  CASE priv.grab_location = slider_widget /\ priv.timer = NO_TIMER
       /\ priv.autoscroll_id = 0 -> "warp"
    [] priv.grab_location = trough_widget /\ priv.timer # NO_TIMER
       /\ priv.autoscroll_id = 0 -> "page"
    [] priv.grab_location = trough_widget /\ priv.timer = NO_TIMER
       /\ priv.autoscroll_id # 0 -> "autoscroll"
    [] priv.grab_location = NULL /\ priv.timer = NO_TIMER
       /\ priv.autoscroll_id = 0 -> "none"
    [] OTHER -> "several"

\* what the press in the log is to start on the trough
Expected ==
  IF ev.press.source = "TOUCHSCREEN" THEN "warp"
  ELSE IF ev.press.button = GDK_BUTTON_PRIMARY
  THEN IF widget.primary_warps # ev.press.shift_pressed THEN "warp" ELSE "page"
  ELSE IF ev.press.button = GDK_BUTTON_MIDDLE
  THEN IF widget.primary_warps THEN "page" ELSE "warp"
  ELSE IF ev.press.button = GDK_BUTTON_SECONDARY THEN "autoscroll"
  ELSE "none"

\* the handler's warp and paging conditions both hold for the press in the log
WarpAndPage ==
  /\ WarpCondition(ev.press.source, widget.primary_warps,
                   ev.press.shift_pressed, ev.press.button)
  /\ PageCondition(widget.primary_warps, ev.press.shift_pressed,
                   ev.press.button)

PixelWorth ==
  RDiv(RAbs(RSub(RSub(adjustment.upper, adjustment.lower),
                 adjustment.page_size)),
       I(widget.trough_length - widget.slider_alloc.length))

\* C19: for an adjustment with some travel and a trough longer than the
\* slider, the value of the start coordinate of a value's slider rectangle is
\* within one pixel's worth of the value
C19_RoundTrip ==
  (/\ ev.probe.kind = "place"
   /\ adjustment.upper # adjustment.lower
   /\ RSub(adjustment.upper, adjustment.lower) # adjustment.page_size
   /\ widget.trough_length > widget.slider_alloc.length) =>
     RLe(RAbs(RSub(ev.probe.back, ev.probe.value)), PixelWorth)

Degenerate ==
  adjustment.lower = adjustment.upper /\ adjustment.page_size = I(0)

\* C20: with lower = upper and page_size = 0 every coordinate has the value
\* lower, the slider rectangle is made of the minimum size at the start of
\* the room it has, and the allocation gives the highlight the fraction 0 and
\* leaves the fill level out: nothing is the result of a division by zero,
\* also when the trough is as long as the slider
C20_DegenerateAdjustment ==
  Degenerate =>
    /\ ev.probe.kind = "locate" => ev.probe.value = adjustment.lower
    /\ ev.probe.kind = "place" =>
         /\ ev.probe.back = adjustment.lower
         /\ ev.probe.rect.length =
              IMIN(widget.min_slider_size, widget.trough_length)
         /\ ev.probe.rect.x \in
              {IF widget.is_scale THEN 0 - widget.min_slider_size \div 2 ELSE 0,
               (IF widget.is_scale
                THEN widget.trough_length + widget.min_slider_size \div 2
                ELSE widget.trough_length) - ev.probe.rect.length}
    /\ ev.name \in {"init", "allocate"} =>
         /\ ev.allocated.highlight = I(0)
         /\ ev.allocated.fill = NotAllocated
         /\ widget.slider_alloc.length =
              IMIN(widget.min_slider_size, widget.trough_length)

\* a coordinate has been looked up with lower = upper in a trough that is as
\* long as its slider, and its value is lower
C20_Witness ==
  /\ Degenerate
  /\ widget.trough_length = widget.slider_alloc.length
  /\ ev.probe.kind = "locate"
  /\ ev.probe.coord = 5
  /\ ev.probe.value = adjustment.lower

\* the factor the pointer's delta is to be scaled by in the state a drag
\* update starts in: 1 with zoom off; with zoom on the ratio of the trough's
\* length to the travel when that is below 1, and 1/4 otherwise
ClaimedFactor ==
  IF ~priv.zoom
  THEN I(1)
  ELSE IF RLt(RDiv(I(widget.trough_length), AdjTravel(State)), I(1))
  THEN RDiv(I(widget.trough_length), AdjTravel(State))
  ELSE Q(1, 4)

\* the pointer's delta of a drag update, from the initial position and the
\* coordinate delta the update leaves stored, and the value of the slider
\* position that is the initial one plus the delta scaled by factor
DragDelta ==
  priv'.mouse_pos - (priv'.slide_initial_coordinate_delta
                       + priv'.slide_initial_slider_position)

DragPosition(factor) ==
  RAdd(I(priv'.slide_initial_slider_position), RMul(factor, I(DragDelta)))

\* the marks a proposal for the slider position c snaps to: those within 3
\* pixels' worth of the current value and within 12 pixels' worth of the value
\* of c, a pixel's worth being the value's change from c to c + 1
MarkDelta(c) ==
  RAbs(RSub(coord_to_value(State, RAdd(c, I(1))), coord_to_value(State, c)))

SnapMarks(c) ==
  { priv.marks[i] : i \in
      { j \in 1..Len(priv.marks) :
          /\ RLt(RAbs(RSub(adjustment.value, priv.marks[j])),
                 RMul(I(3), MarkDelta(c)))
          /\ RLt(RAbs(RSub(coord_to_value(State, c), priv.marks[j])),
                 RMul(I(12), MarkDelta(c))) } }

\* value is what is proposed for the slider position c: the value of c, or a
\* mark it snaps to when there is one
ProposedAt(c, value) ==
  IF SnapMarks(c) = {}
  THEN value = coord_to_value(State, c)
  ELSE value \in SnapMarks(c)

\* C21 (as amended): a drag update that emits change-value proposes the value
\* (or the mark it snaps to) of the initial slider position plus the pointer's
\* delta scaled by 1 with
\* zoom off and, with zoom on, by trough_length / (upper - lower - page_size)
\* when that ratio is below 1 and by 0.25 when it is not; with zoom on and a
\* positive travel the factor is strictly between 0 and 1
C21_ZoomFactor ==
  [][(ev'.name = "drag_update" /\ ev'.emits # <<>>) =>
       /\ ProposedAt(DragPosition(ClaimedFactor), ev'.emits[1].value)
       /\ (priv.zoom /\ RGt(AdjTravel(State), I(0))) =>
            (RGt(ClaimedFactor, I(0)) /\ RLt(ClaimedFactor, I(1)))]_vars

\* C21 as stated: the factor is strictly between 0 and 1 whenever zoom is on
C21_FactorWithinUnit ==
  [][(ev'.name = "drag_update" /\ ev'.emits # <<>>) =>
       /\ ProposedAt(DragPosition(ClaimedFactor), ev'.emits[1].value)
       /\ priv.zoom => (RGt(ClaimedFactor, I(0)) /\ RLt(ClaimedFactor, I(1)))]_vars

\* the slider of the range whose travel of 8 is shorter than its trough of 64
\* was pressed at 30 with shift held and the pointer dragged on to 34: the
\* slider position proposed is 26 + 0.25 * 4 = 27 of 52, the value 8 * 27 / 52
C21_Witness ==
  /\ ev.name = "drag_update"
  /\ priv.zoom
  /\ ~should_invert(State)
  /\ AdjTravel(State) = I(8)
  /\ priv.mouse_pos = 34
  /\ priv.slide_initial_slider_position = 26
  /\ ev.emits # <<>>
  /\ ev.emits[1].value = Q(54, 13)

\* the press that starts is one on the trough, with no grab held, that the
\* warp condition selects
WarpingPress ==
  /\ ev'.name = "pressed"
  /\ priv.grab_location = NULL
  /\ gtk_widget_pick(State, priv'.mouse_pos) = trough_widget
  /\ WarpCondition(ev'.press.source, widget.primary_warps,
                   ev'.press.shift_pressed, ev'.press.button)

\* the value midway between the values of the pointer's coordinate and of the
\* coordinate one slider length before it, and the start of the slider
\* computed for it (not below 0)
WarpMidpoint ==
  RDiv(RAdd(coord_to_value(State, I(priv'.mouse_pos)),
            coord_to_value(State, I(priv'.mouse_pos
                                      - widget.slider_alloc.length))),
       I(2))

WarpSliderStart ==
  IMAX(0, gtk_range_compute_slider_position(State, WarpMidpoint).x)

\* the callback before was a warping press: the press of a grab on the slider
\* that emitted change-value
AfterWarp ==
  /\ ev.name = "pressed"
  /\ priv.grab_location = slider_widget
  /\ ev.emits # <<>>

\* what a warping press does apart from the value it proposes: the grab is on
\* the slider, there is no repeat timer and no autoscroll, and one
\* change-value was emitted, a jump
WarpFrame ==
  /\ priv'.grab_location = slider_widget
  /\ priv'.timer = NO_TIMER /\ widget'.sources = <<>>
  /\ priv'.autoscroll_id = 0 /\ widget'.tick_callbacks = 0
  /\ priv'.autoscroll_mode = GTK_SCROLL_NONE
  /\ Len(ev'.emits) = 1
  /\ ev'.emits[1].scroll = GTK_SCROLL_JUMP

\* a drag update that follows a warping press is handled as the slider's
\* drag: it sets in_drag and proposes what the pointer's delta leads to
DragAfterWarp ==
  (AfterWarp /\ ev'.name = "drag_update") =>
    /\ priv'.in_drag
    /\ Len(ev'.emits) = 1
    /\ ev'.emits[1].scroll = GTK_SCROLL_JUMP
    /\ ProposedAt(DragPosition(I(1)), ev'.emits[1].value)

\* C22 (as amended): a warping trough press ends with the grab on the slider,
\* no repeat timer and no autoscroll, having emitted exactly one change-value,
\* a jump to the value at the start of the slider computed for the midpoint
\* value, or to a mark that value snaps to; a drag update that follows it is
\* handled as the slider's drag
C22_WarpThenSliderGrab ==
  [][/\ WarpingPress =>
          /\ WarpFrame
          /\ ProposedAt(I(WarpSliderStart), ev'.emits[1].value)
     /\ DragAfterWarp]_vars

\* C22 as stated: the jump is to the value at the start of the slider computed
\* for the midpoint value, whatever marks the range has
C22_WarpToMidpoint ==
  [][/\ WarpingPress =>
          /\ priv'.grab_location = slider_widget
          /\ priv'.timer = NO_TIMER /\ widget'.sources = <<>>
          /\ priv'.autoscroll_id = 0 /\ widget'.tick_callbacks = 0
          /\ priv'.autoscroll_mode = GTK_SCROLL_NONE
          /\ Len(ev'.emits) = 1
          /\ ev'.emits[1].scroll = GTK_SCROLL_JUMP
          /\ ev'.emits[1].value = coord_to_value(State, I(WarpSliderStart))
     /\ DragAfterWarp]_vars

\* the trough of the range with travel 8 was pressed at 5, below the slider of
\* length 12: the midpoint value is (10/13 + 0) / 2, its slider starts at 2,
\* and the jump proposed is to 8 * 2 / 52; the pointer was then dragged on
C22_Witness ==
  /\ ev.name = "drag_update"
  /\ priv.grab_location = slider_widget
  /\ priv.slide_initial_slider_position = 2
  /\ priv.slide_initial_coordinate_delta = 3
  /\ priv.mouse_pos = 34
  /\ ev.emits # <<>>
  /\ ev.emits[1].before = Q(4, 13)

\* the press that starts is one on the trough, with no grab held, that the
\* paging condition selects and the warp condition does not
PagingPress ==
  /\ ev'.name = "pressed"
  /\ priv.grab_location = NULL
  /\ gtk_widget_pick(State, priv'.mouse_pos) = trough_widget
  /\ ~WarpCondition(ev'.press.source, widget.primary_warps,
                    ev'.press.shift_pressed, ev'.press.button)
  /\ PageCondition(widget.primary_warps, ev'.press.shift_pressed,
                   ev'.press.button)

\* the direction of a click: forward when its value is strictly above the
\* current one
ClickDirection ==
  IF RGt(coord_to_value(State, I(priv'.mouse_pos)), adjustment.value)
  THEN GTK_SCROLL_PAGE_FORWARD
  ELSE GTK_SCROLL_PAGE_BACKWARD

\* C23: a paging trough press puts the grab on the trough and creates the
\* repeat timer for the direction of the click, page-forward iff the click's
\* value is strictly above the current value, and steps once that way; the
\* timer keeps its direction for as long as it lives, and every tick of it
\* emits one change-value of that direction
C23_PagingDirectionHeld ==
  [][/\ PagingPress =>
          /\ priv'.grab_location = trough_widget
          /\ priv'.timer # NO_TIMER
          /\ priv'.timer.step = ClickDirection
          /\ Len(ev'.emits) = 1
          /\ ev'.emits[1].scroll = ClickDirection
     /\ (priv.timer # NO_TIMER /\ priv'.timer # NO_TIMER) =>
          priv'.timer.step = priv.timer.step
     /\ (ev'.name = "second_timeout" /\ priv.timer # NO_TIMER) =>
          /\ priv'.timer # NO_TIMER
          /\ Len(ev'.emits) = 1
          /\ ev'.emits[1].scroll = priv.timer.step]_vars

\* a tick of a hold that pages backward has paged backward again from a value
\* already below the value of the click
C23_Witness ==
  /\ ev.name = "second_timeout"
  /\ priv.grab_location = trough_widget
  /\ priv.timer # NO_TIMER
  /\ priv.timer.step = GTK_SCROLL_PAGE_BACKWARD
  /\ ev.emits # <<>>
  /\ ev.emits[1].scroll = GTK_SCROLL_PAGE_BACKWARD
  /\ RLt(ev.emits[1].before, coord_to_value(State, I(priv.mouse_pos)))

\* the press that starts is one of the secondary button of a pointer on the
\* trough, with no grab held
SecondaryTroughPress ==
  /\ ev'.name = "pressed"
  /\ priv.grab_location = NULL
  /\ gtk_widget_pick(State, priv'.mouse_pos) = trough_widget
  /\ ev'.press.button = GDK_BUTTON_SECONDARY
  /\ ev'.press.source # "TOUCHSCREEN"

\* C24: a secondary-button press on the trough puts the grab on the trough and
\* registers the autoscroll tick, with mode END if the click's value is
\* strictly above the current value and START otherwise; it creates no repeat
\* timer, emits no change-value and leaves the value as it is
C24_SecondaryAutoscroll ==
  [][SecondaryTroughPress =>
       /\ priv'.grab_location = trough_widget
       /\ priv'.autoscroll_mode =
            IF RGt(coord_to_value(State, I(priv'.mouse_pos)), adjustment.value)
            THEN GTK_SCROLL_END
            ELSE GTK_SCROLL_START
       /\ priv'.autoscroll_id # 0
       /\ widget'.tick_callbacks = 1
       /\ priv'.timer = NO_TIMER /\ widget'.sources = <<>>
       /\ ev'.emits = <<>>
       /\ adjustment' = adjustment]_vars

\* the secondary button was pressed at 5 on the trough of an inverted range,
\* where the values are above the current one, and autoscroll to the end has
\* started
C24_Witness ==
  /\ ev.name = "pressed"
  /\ ev.press.button = GDK_BUTTON_SECONDARY
  /\ should_invert(State)
  /\ priv.mouse_pos = 5
  /\ priv.grab_location = trough_widget
  /\ priv.autoscroll_mode = GTK_SCROLL_END
  /\ widget.tick_callbacks = 1

\* the press that starts is one on the slider, with no grab held
SliderPress ==
  /\ ev'.name = "pressed"
  /\ priv.grab_location = NULL
  /\ gtk_widget_pick(State, priv'.mouse_pos) = slider_widget

\* C25: a press on the slider that triggers the context menu (the secondary
\* button's) requests the popup and leaves the grab, zoom, the repeat timer,
\* the autoscroll and the adjustment as they were; a press on it that does not
\* (the primary button's) puts the grab on the slider, stores the slider's
\* start (not below 0) as the initial position and the pointer's distance
\* from it as the delta, turns zoom on when shift is held and leaves it
\* otherwise, and emits no change-value
C25_SliderPress ==
  [][/\ (SliderPress /\ ev'.press.button = GDK_BUTTON_SECONDARY) =>
          /\ ev'.popup
          /\ priv'.grab_location = priv.grab_location
          /\ priv'.zoom = priv.zoom
          /\ priv'.timer = priv.timer /\ widget'.sources = widget.sources
          /\ priv'.autoscroll_mode = priv.autoscroll_mode
          /\ priv'.autoscroll_id = priv.autoscroll_id
          /\ widget'.tick_callbacks = widget.tick_callbacks
          /\ priv'.slide_initial_slider_position =
               priv.slide_initial_slider_position
          /\ ev'.emits = <<>>
          /\ adjustment' = adjustment
     /\ (SliderPress /\ ev'.press.button = GDK_BUTTON_PRIMARY) =>
          /\ ~ev'.popup
          /\ priv'.grab_location = slider_widget
          /\ priv'.slide_initial_slider_position =
               IMAX(0, widget.slider_alloc.x)
          /\ priv'.slide_initial_coordinate_delta =
               priv'.mouse_pos - IMAX(0, widget.slider_alloc.x)
          /\ priv'.zoom = (ev'.press.shift_pressed \/ priv.zoom)
          /\ priv'.timer = priv.timer /\ widget'.sources = widget.sources
          /\ priv'.autoscroll_id = priv.autoscroll_id
          /\ ev'.emits = <<>>
          /\ adjustment' = adjustment]_vars

\* the slider was pressed at 30 with shift held: the grab is on it, zoom is
\* on, its start of 26 and the pointer's distance of 4 from it are stored
C25_Witness ==
  /\ ev.name = "pressed"
  /\ ev.press.shift_pressed
  /\ priv.mouse_pos = 30
  /\ priv.grab_location = slider_widget
  /\ priv.zoom
  /\ priv.slide_initial_slider_position = 26
  /\ priv.slide_initial_coordinate_delta = 4
  /\ ev.emits = <<>>

\* C26: a drag update that arrives while the grab is not on the slider (no
\* grab, a paging grab, an autoscroll grab on the trough) changes nothing:
\* in_drag, the stored pointer position, the autoscroll mode, zoom and the
\* adjustment stay as they were and no change-value is emitted
C26_DragUpdateElsewhere ==
  [][(ev'.name = "drag_update" /\ priv.grab_location # slider_widget) =>
       /\ priv' = priv
       /\ adjustment' = adjustment
       /\ widget' = widget
       /\ ev'.emits = <<>>]_vars

\* a drag update has arrived during a paging hold: the pointer position stored
\* is still the press's, in_drag is off and the timer is running
C26_Witness ==
  /\ ev.name = "drag_update"
  /\ priv.grab_location = trough_widget
  /\ priv.timer # NO_TIMER
  /\ priv.mouse_pos \in GesturePresses
  /\ ~priv.in_drag
  /\ ev.emits = <<>>

\* the drag update that starts finds the grab on the slider; it puts the
\* pointer in an edge zone: zoom is on and the pointer is less than 15 pixels
\* from either end of the range
SliderDrag == ev'.name = "drag_update" /\ priv.grab_location = slider_widget

LowEdge == priv.zoom /\ priv'.mouse_pos < SCROLL_EDGE_SIZE

HighEdge ==
  priv.zoom /\ priv'.mouse_pos > widget.trough_length - SCROLL_EDGE_SIZE

\* C27: a drag update with the slider grabbed that puts the pointer in an edge
\* zone leaves a step autoscroll registered and emits nothing; any other
\* leaves no autoscroll and emits exactly one change-value, a jump
C27_EdgeAutoscrollOrJump ==
  [][SliderDrag =>
       IF LowEdge \/ HighEdge
       THEN /\ priv'.autoscroll_mode \in
                 {GTK_SCROLL_STEP_BACKWARD, GTK_SCROLL_STEP_FORWARD}
            /\ priv'.autoscroll_id # 0
            /\ widget'.tick_callbacks = 1
            /\ ev'.emits = <<>>
            /\ adjustment' = adjustment
       ELSE /\ priv'.autoscroll_mode = GTK_SCROLL_NONE
            /\ priv'.autoscroll_id = 0
            /\ widget'.tick_callbacks = 0
            /\ Len(ev'.emits) = 1
            /\ ev'.emits[1].scroll = GTK_SCROLL_JUMP]_vars

\* with zoom on, the pointer was dragged to 15, the last pixel outside the low
\* edge zone, and a jump was emitted
C27_Witness ==
  /\ ev.name = "drag_update"
  /\ priv.grab_location = slider_widget
  /\ priv.zoom
  /\ priv.mouse_pos = SCROLL_EDGE_SIZE
  /\ priv.autoscroll_mode = GTK_SCROLL_NONE
  /\ widget.tick_callbacks = 0
  /\ Len(ev.emits) = 1

\* C28: the autoscroll of an edge zone steps toward the edge the pointer is
\* at: at the low-coordinate edge forward iff the geometry is mirrored
\* (should_invert) and backward otherwise, at the high-coordinate edge the
\* other way round
C28_EdgeDirection ==
  [][(SliderDrag /\ (LowEdge \/ HighEdge)) =>
       priv'.autoscroll_mode =
         IF LowEdge = should_invert(State)
         THEN GTK_SCROLL_STEP_FORWARD
         ELSE GTK_SCROLL_STEP_BACKWARD]_vars

\* C29: once zoom is off, no autoscroll tick moves the value of a range whose
\* slider is grabbed: the tick callback is not registered then
C29_NoTickWithoutZoom ==
  /\ [](priv.grab_location = slider_widget /\ ~priv.zoom =>
          (priv.autoscroll_id = 0 /\ widget.tick_callbacks = 0))
  /\ [][(ev'.name = "autoscroll_cb" /\ priv.grab_location = slider_widget
           /\ ~priv.zoom) =>
          (ev'.emits = <<>> /\ adjustment' = adjustment)]_vars

\* the slider's rectangle is the one of the current value
SliderPlaced ==
  widget.slider_alloc =
    gtk_range_compute_slider_position(State, adjustment.value)

\* C30: after Shift has toggled zoom during a drag (one that no edge autoscroll
\* has taken over), a drag update with the pointer where it was proposes the
\* value of the slider's current position
C30_NoJumpOnToggle ==
  [][(/\ ev.name = "key_shift"
      /\ SliderPlaced
      /\ priv.autoscroll_mode = GTK_SCROLL_NONE
      /\ ev'.name = "drag_update"
      /\ priv'.mouse_pos = priv.mouse_pos
      /\ ev'.emits # <<>>) =>
       ev'.emits[1].value = coord_to_value(State, I(widget.slider_alloc.x))]_vars

-----------------------------------------------------------------------------
(* C31: a long press turns zoom on and captures the initial slider position *)
(* and the pointer's delta again exactly when the pointer's location        *)
(* resolves to the slider (the grab's widget, or the widget picked at the   *)
(* stored pointer position when nothing is grabbed) and zoom is off; it     *)
(* never turns zoom on while the trough holds the grab, and it leaves the   *)
(* grab, the timer, the autoscroll and the adjustment alone                 *)

ResolvedLocation ==
  IF priv.grab_location # NULL
  THEN priv.grab_location
  ELSE gtk_widget_pick(State, priv.mouse_pos)

LongPressZooms == ResolvedLocation = slider_widget /\ ~priv.zoom

C31_LongPress ==
  [][ev'.name = "long_press" =>
       /\ LongPressZooms =>
            /\ priv'.zoom
            /\ priv'.slide_initial_slider_position = IMAX(0, widget.slider_alloc.x)
            /\ (priv'.slide_initial_coordinate_delta
                  + priv'.slide_initial_slider_position) \in PressPositions
       /\ ~LongPressZooms =>
            /\ priv'.zoom = priv.zoom
            /\ priv'.slide_initial_slider_position =
                 priv.slide_initial_slider_position
            /\ priv'.slide_initial_coordinate_delta =
                 priv.slide_initial_coordinate_delta
       /\ priv.grab_location = trough_widget => priv'.zoom = priv.zoom
       /\ priv'.grab_location = priv.grab_location
       /\ priv'.timer = priv.timer
       /\ widget'.sources = widget.sources
       /\ priv'.autoscroll_mode = priv.autoscroll_mode
       /\ priv'.autoscroll_id = priv.autoscroll_id
       /\ widget'.tick_callbacks = widget.tick_callbacks
       /\ adjustment' = adjustment]_vars

\* a long press at 31 after a plain press on the slider at 0: zoom is on and
\* the delta was captured at the long press's position
C31_Witness ==
  /\ ev.name = "long_press"
  /\ priv.zoom
  /\ priv.grab_location = slider_widget
  /\ ~priv.in_drag
  /\ priv.mouse_pos = 0
  /\ priv.slide_initial_coordinate_delta + priv.slide_initial_slider_position = 31

-----------------------------------------------------------------------------
(* C32: a drag update that emits change-value proposes the first mark, in   *)
(* the order of the list, that lies within 3 pixels' worth of the current   *)
(* value and within 12 pixels' worth of the raw value of the pointer's      *)
(* position, and the raw value when no mark does; so the proposal is never  *)
(* a mark 12 pixels' worth or more away from the raw value, and it is the   *)
(* raw value when a pixel is worth nothing                                  *)

DragRaw == coord_to_value(State, DragPosition(ZoomFactor(State)))

DragMarkDelta == MarkDelta(DragPosition(ZoomFactor(State)))

Snapping ==
  { j \in 1..Len(priv.marks) :
      /\ RLt(RAbs(RSub(adjustment.value, priv.marks[j])),
             RMul(I(3), DragMarkDelta))
      /\ RLt(RAbs(RSub(DragRaw, priv.marks[j])),
             RMul(I(MARK_SNAP_LENGTH), DragMarkDelta)) }

FirstSnapping == CHOOSE j \in Snapping : \A k \in Snapping : j <= k

C32_FirstMarkInOrder ==
  [][(ev'.name = "drag_update" /\ ev'.emits # <<>>) =>
       /\ Len(ev'.emits) = 1
       /\ ev'.emits[1].value =
            (IF Snapping = {} THEN DragRaw ELSE priv.marks[FirstSnapping])
       /\ ev'.emits[1].value # DragRaw =>
            RLt(RAbs(RSub(DragRaw, ev'.emits[1].value)),
                RMul(I(MARK_SNAP_LENGTH), DragMarkDelta))
       /\ RIsZero(DragMarkDelta) => ev'.emits[1].value = DragRaw]_vars

\* the scale with marks at 3.8 and 4.3, in that order, and the value 4, its
\* slider pressed at 30 and dragged to 34: both marks are near enough, and
\* the first one is proposed
C32_Witness ==
  /\ ev.name = "drag_update"
  /\ ev.emits # <<>>
  /\ priv.marks = <<Q(19, 5), Q(43, 10)>>
  /\ ev.emits[1].before = I(4)
  /\ ev.emits[1].value = Q(19, 5)

-----------------------------------------------------------------------------
(* C33 (as amended): a tick of START / END autoscroll proposes the value    *)
(* plus (END) or minus (START) a twentieth of a speed that is linear in the *)
(* pointer's distance d across the axis: step_increment for d <= 20, then   *)
(* (page_increment - step_increment) more per 100 pixels, page_increment at *)
(* 120 pixels, and 2 * page_increment - step_increment from 220 pixels on   *)

PointerDistance == IF widget.drag_active THEN IAbs(widget.drag_offset) ELSE 0

LinearSpeed(past, top) ==
  RAdd(adjustment.step_increment,
       RMul(Q(IMIN(IMAX(PointerDistance - 20, 0), past), past),
            RSub(top, adjustment.step_increment)))

TickProposes(speed) ==
  /\ Len(ev'.emits) = 1
  /\ ev'.emits[1].scroll = GTK_SCROLL_JUMP
  /\ ev'.emits[1].value =
       RAdd(adjustment.value,
            RDiv(IF priv.autoscroll_mode = GTK_SCROLL_END
                 THEN speed ELSE RNeg(speed),
                 I(AUTOSCROLL_FACTOR)))

StartEndTick ==
  /\ ev'.name = "autoscroll_cb"
  /\ priv.autoscroll_mode \in {GTK_SCROLL_START, GTK_SCROLL_END}

-----------------------------------------------------------------------------
(* C34 (as amended): a scroll event emits exactly one change-value, a jump  *)
(* to value + s * page_increment * d, where d is dy for a vertical range    *)
(* and, for a horizontal one, dx when dx is not zero and -dy when it is;    *)
(* s is -1 exactly when the inverted flag is set, whatever flippable and    *)
(* the text direction are                                                   *)

WheelProposes(d) ==
  /\ Len(ev'.emits) = 1
  /\ ev'.emits[1].scroll = GTK_SCROLL_JUMP
  /\ ev'.emits[1].value =
       RAdd(adjustment.value,
            RMul(I((IF priv.inverted THEN -1 ELSE 1) * d),
                 adjustment.page_increment))

C34_WheelJump ==
  [][ev'.name = "scroll" =>
       WheelProposes(IF priv.orientation = "VERTICAL"
                     THEN ev'.probe.dy
                     ELSE IF ev'.probe.dx # 0
                     THEN ev'.probe.dx
                     ELSE -ev'.probe.dy)]_vars

\* C34 as stated: with dx zero a horizontal range takes the delta of the
\* other axis, dy
C34_OppositeAxisDelta ==
  [][ev'.name = "scroll" =>
       WheelProposes(IF priv.orientation = "VERTICAL"
                     THEN ev'.probe.dy
                     ELSE IF ev'.probe.dx # 0
                     THEN ev'.probe.dx
                     ELSE ev'.probe.dy)]_vars

\* a horizontal, flippable range in a right-to-left locale, not inverted, at
\* 4, scrolled by dy = 1 alone: a jump to 4 - 2 is proposed
C34_Witness ==
  /\ ev.name = "scroll"
  /\ priv.orientation = "HORIZONTAL"
  /\ priv.flippable /\ widget.direction = "RTL" /\ ~priv.inverted
  /\ ev.probe.dx = 0 /\ ev.probe.dy = 1
  /\ Len(ev.emits) = 1
  /\ ev.emits[1].before = I(4)
  /\ ev.emits[1].value = I(2)

-----------------------------------------------------------------------------
(* C35: the slider rectangle computed for a value lies within the travel,   *)
(* whatever the value is: its start is not before the travel's start and    *)
(* its end is not after the travel's end. Stated for the rectangle the      *)
(* trough was last allocated (the current value) and for the one a warping  *)
(* press computes for its midpoint value, which can lie beyond              *)
(* upper - page_size                                                        *)

TravelStart == IF widget.is_scale THEN 0 - CDiv(widget.min_slider_size, 2) ELSE 0

TravelEnd ==
  IF widget.is_scale
  THEN widget.trough_length + CDiv(widget.min_slider_size, 2)
  ELSE widget.trough_length

WithinTravel(rect) ==
  /\ rect.x >= TravelStart
  /\ rect.x + rect.length <= TravelEnd

WarpSlider == gtk_range_compute_slider_position(State, WarpMidpoint)

C35_SliderWithinTravel ==
  [][/\ WithinTravel(widget.slider_alloc)
     /\ WarpingPress =>
          /\ WithinTravel(WarpSlider)
          /\ priv'.slide_initial_slider_position = IMAX(0, WarpSlider.x)]_vars

-----------------------------------------------------------------------------
(* C36: every value the default change-value handler hands to the           *)
(* adjustment lies within [lower, upper - page_size], the bounds being      *)
(* those the adjustment has when the handler hands the value on             *)

C36_HandedWithinBounds ==
  \A i \in 1..Len(ev.commits) :
    /\ RGe(ev.commits[i].handed, adjustment.lower)
    /\ RLe(ev.commits[i].handed, AdjTop(State))

-----------------------------------------------------------------------------
(* C37: while restrict_to_fill_level is set, the value is at most           *)
(* MAX (lower, fill_level), after every call that sets the value, the       *)
(* range, the fill level or the restriction and after every change-value    *)
(* the default handler commits without rounding                             *)

C37_ValueUnderFillLevel ==
  priv.restrict_to_fill_level =>
    RLe(adjustment.value, RMAX(adjustment.lower, priv.fill_level))

-----------------------------------------------------------------------------
(* C38: a drag update that positions the slider never divides by zero: when *)
(* it recomputes the initial slider position, unset (-1) by                 *)
(* remove_autoscroll before the callback or on its way out of an autoscroll *)
(* mode, the zoom factor is not 1, and when it computes the zoom ratio the  *)
(* travel upper - lower - page_size is not 0                                *)

RecomputesInitial ==
  \/ priv.slide_initial_slider_position = -1
  \/ priv.autoscroll_mode # GTK_SCROLL_NONE

C38_NoDivisionByZero ==
  [][(ev'.name = "drag_update" /\ ev'.emits # <<>>) =>
       /\ RecomputesInitial => ZoomFactor(State) # I(1)
       /\ priv.zoom => ~RIsZero(AdjTravel(State))]_vars

-----------------------------------------------------------------------------
(* C39: a paging hold on the trough that is never released takes the value  *)
(* to the bound in its direction, lower for page-backward and the lesser of *)
(* upper - page_size and the fill-level cap for page-forward, and the value *)
(* stays there, whatever the marks and round_digits are (page_increment is  *)
(* 2 here, and the timeouts keep firing)                                    *)

Holding == priv.grab_location = trough_widget /\ priv.timer # NO_TIMER

HoldBound ==
  IF priv.timer.step = GTK_SCROLL_PAGE_BACKWARD
  THEN adjustment.lower
  ELSE IF priv.restrict_to_fill_level
  THEN RMIN(AdjTop(State), RMAX(adjustment.lower, priv.fill_level))
  ELSE AdjTop(State)

C39_HoldReachesBound ==
  <>[]Holding => <>[](Holding /\ adjustment.value = HoldBound)

(* C40: a registered autoscroll tick finds one of the six modes it knows,  *)
(* step-forward, step-backward, page-forward, page-backward, start or end, *)
(* so it never reaches its assert-not-reached branch; and the tick is      *)
(* registered exactly when the mode is not none                            *)

TickRegistered == priv.autoscroll_id # 0

TickModes ==
  { GTK_SCROLL_STEP_FORWARD, GTK_SCROLL_STEP_BACKWARD,
    GTK_SCROLL_PAGE_FORWARD, GTK_SCROLL_PAGE_BACKWARD,
    GTK_SCROLL_START, GTK_SCROLL_END }

AssertReached ==
  \E i \in 1..Len(ev.critical) : ev.critical[i] = "g_assert_not_reached"

C40_TickModeKnown ==
  /\ TickRegistered => priv.autoscroll_mode \in TickModes
  /\ ~AssertReached
  /\ TickRegistered <=> priv.autoscroll_mode # GTK_SCROLL_NONE

=============================================================================
